---- MODULE Spec2Model ----
(***************************************************************************)
(* Legacy Compass data pipeline: the county/owner/vacancy record linkage   *)
(* (process_county_data.py), the bulk importers (import_to_supabase.py,    *)
(* run_import.py, run_import_service.py) and the monthly update detector   *)
(* (monthly_update.py).                                                    *)
(*                                                                         *)
(* Text is modelled as a sequence of one-character strings, so that the    *)
(* string operations of the code (upper, strip, replace, split/join) are   *)
(* computed character by character.  Python's None is NoneStr for a text   *)
(* field and the empty sequence for a numeric field (a number v is <<v>>). *)
(***************************************************************************)
EXTENDS Integers, Sequences, FiniteSets, TLC

VARIABLES
    \* normalize_address applied once and twice
    nInput, nOnce, nTwice, npc,
    \* process_county_data.main: the three source files, the loaders' results,
    \* the merge loop and the parcel loader's output as it was before the merge
    countyRows, ownerRows, vacantLines,
    county_properties, owners_by_address, vacant_apns, vacant_by_address,
    mergeIdx, matched_owners, matched_vacant, parsed, ppc,
    \* the steps of main completed so far, the exception that ended the run,
    \* and the output files written
    stepsDone, pipeError, outputs,
    \* the importers: the script that runs, its input list and batch size, the
    \* loop position (i, and j in the per-record retry), its counters, the
    \* master_properties table, the upserts sent so far, the rejections the
    \* store may still answer with, and the table as the first run left it
    script, properties, batch_size, ipos, rj, inserted, failed, failed_apns,
    store, upsertLog, rejectsLeft, run, storeRun1, ipc,
    \* monthly_update.check_for_updates: the number of snapshot rows read, the
    \* row read last, the updates dict and the dict as it was before that row
    rowsRead, lastRow, updates, prevUpdates, upc,
    \* monthly_update.apply_updates: the position in the list being applied,
    \* the property_alerts table and the store operations issued so far
    apos, alerts, opLog,
    \* generate_sql_inserts and the statement it writes: the dict it is given,
    \* the rows of the VALUES list, and the row the store executes next
    \* and the table as it was before the statement
    sqlProps, sqlValues, sqlPos, sqlBefore, spc,
    \* the next run of monthly_update: the snapshot the updates were computed
    \* from and what check_for_updates returns for it after apply_updates
    snapshot, rechecked

normVars == <<nInput, nOnce, nTwice, npc>>

pipeVars == <<countyRows, ownerRows, vacantLines,
              county_properties, owners_by_address, vacant_apns,
              vacant_by_address, mergeIdx, matched_owners, matched_vacant,
              parsed, ppc, stepsDone, pipeError, outputs>>

\* the importers' own variables; store is the table they share with the
\* monthly update
impLocal == <<script, properties, batch_size, ipos, rj, inserted, failed,
              failed_apns, upsertLog, rejectsLeft, run, storeRun1, ipc>>

impVars == <<impLocal, store>>

updVars == <<rowsRead, lastRow, updates, prevUpdates, upc>>

applyVars == <<apos, alerts, opLog>>

sqlVars == <<sqlProps, sqlValues, sqlPos, sqlBefore, spc>>

recheckVars == <<snapshot, rechecked>>

vars == <<normVars, pipeVars, impVars, updVars, applyVars, sqlVars,
          recheckVars>>

(***************************************************************************)
(* Python values                                                           *)
(***************************************************************************)
NoneStr == <<"None">>

Whitespace == {" ", "\t"}

LowerLetters == <<"a","b","c","d","e","f","g","h","i","j","k","l","m",
                  "n","o","p","q","r","s","t","u","v","w","x","y","z">>

UpperLetters == <<"A","B","C","D","E","F","G","H","I","J","K","L","M",
                  "N","O","P","Q","R","S","T","U","V","W","X","Y","Z">>

\* str.upper(), one character
UpperChar(c) ==
    IF \E i \in 1..26 : LowerLetters[i] = c
    THEN UpperLetters[CHOOSE i \in 1..26 : LowerLetters[i] = c]
    ELSE c

\* str.lower(), one character
LowerChar(c) ==
    IF \E i \in 1..26 : UpperLetters[i] = c
    THEN LowerLetters[CHOOSE i \in 1..26 : UpperLetters[i] = c]
    ELSE c

Upper(s) == [i \in 1..Len(s) |-> UpperChar(s[i])]

Lower(s) == [i \in 1..Len(s) |-> LowerChar(s[i])]

RECURSIVE LStrip(_)
LStrip(s) ==
    IF s # <<>> /\ Head(s) \in Whitespace THEN LStrip(Tail(s)) ELSE s

RECURSIVE RStrip(_)
RStrip(s) ==
    IF s # <<>> /\ s[Len(s)] \in Whitespace
    THEN RStrip(SubSeq(s, 1, Len(s) - 1))
    ELSE s

\* str.strip()
Strip(s) == RStrip(LStrip(s))

\* str.replace(old, new): the non-overlapping occurrences, left to right
RECURSIVE Replace(_, _, _)
Replace(s, old, new) ==
    IF Len(s) < Len(old) THEN s
    ELSE IF SubSeq(s, 1, Len(old)) = old
         THEN new \o Replace(SubSeq(s, Len(old) + 1, Len(s)), old, new)
         ELSE <<Head(s)>> \o Replace(Tail(s), old, new)

\* ' '.join(s.split()): runs of whitespace become one space, none at the ends
RECURSIVE SplitJoin(_)
SplitJoin(s) ==
    LET t == LStrip(s) IN
    IF t = <<>> THEN <<>>
    ELSE LET k == CHOOSE n \in 1..Len(t) :
                      /\ \A i \in 1..n : t[i] \notin Whitespace
                      /\ (n = Len(t) \/ t[n + 1] \in Whitespace)
             rest == SplitJoin(SubSeq(t, k + 1, Len(t)))
         IN SubSeq(t, 1, k) \o (IF rest = <<>> THEN <<>> ELSE <<" ">> \o rest)

\* old in s
RECURSIVE Contains(_, _)
Contains(s, old) ==
    IF Len(s) < Len(old) THEN FALSE
    ELSE SubSeq(s, 1, Len(old)) = old \/ Contains(Tail(s), old)

(***************************************************************************)
(* Normalizer                                                              *)
(***************************************************************************)
\* the replacements dict of normalize_address, in insertion order
replacements == <<
    << <<" ","S","T","R","E","E","T">>,             <<" ","S","T">> >>,
    << <<" ","A","V","E","N","U","E">>,             <<" ","A","V","E">> >>,
    << <<" ","B","O","U","L","E","V","A","R","D">>, <<" ","B","L","V","D">> >>,
    << <<" ","D","R","I","V","E">>,                 <<" ","D","R">> >>,
    << <<" ","R","O","A","D">>,                     <<" ","R","D">> >>,
    << <<" ","L","A","N","E">>,                     <<" ","L","N">> >>,
    << <<" ","P","L","A","C","E">>,                 <<" ","P","L">> >>,
    << <<" ","C","O","U","R","T">>,                 <<" ","C","T">> >>,
    << <<" ","P","A","R","K","W","A","Y">>,         <<" ","P","K","W","Y">> >>,
    << <<" ","C","I","R","C","L","E">>,             <<" ","C","I","R">> >>,
    << <<" ","T","E","R","R","A","C","E">>,         <<" ","T","E","R">> >>,
    << <<" ","T","R","A","I","L">>,                 <<" ","T","R","L">> >>,
    << <<" ","E","A","S","T"," ">>,                 <<" ","E"," ">> >>,
    << <<" ","W","E","S","T"," ">>,                 <<" ","W"," ">> >>,
    << <<" ","N","O","R","T","H"," ">>,             <<" ","N"," ">> >>,
    << <<" ","S","O","U","T","H"," ">>,             <<" ","S"," ">> >>,
    << <<"F","I","R","S","T">>,                     <<"1","S","T">> >>,
    << <<"S","E","C","O","N","D">>,                 <<"2","N","D">> >>,
    << <<"T","H","I","R","D">>,                     <<"3","R","D">> >>,
    << <<"F","O","U","R","T","H">>,                 <<"4","T","H">> >>,
    << <<"F","I","F","T","H">>,                     <<"5","T","H">> >>,
    << <<"S","I","X","T","H">>,                     <<"6","T","H">> >>,
    << <<"S","E","V","E","N","T","H">>,             <<"7","T","H">> >>,
    << <<"E","I","G","H","T","H">>,                 <<"8","T","H">> >>,
    << <<"N","I","N","T","H">>,                     <<"9","T","H">> >>,
    << <<"T","E","N","T","H">>,                     <<"1","0","T","H">> >> >>

\* for old, new in replacements.items(): addr = addr.replace(old, new)
RECURSIVE ApplyReplacements(_, _)
ApplyReplacements(addr, k) ==
    IF k > Len(replacements) THEN addr
    ELSE ApplyReplacements(
             Replace(addr, replacements[k][1], replacements[k][2]), k + 1)

normalize_address(addr) ==
    IF addr = NoneStr \/ addr = <<>> THEN <<>>
    ELSE SplitJoin(ApplyReplacements(Strip(Upper(addr)), 1))

(***************************************************************************)
(* csv.DictReader rows, float() and str.split                              *)
(***************************************************************************)
\* row.get(key, default)
Get(row, key, default) == IF key \in DOMAIN row THEN row[key] ELSE default

Digits == <<"0","1","2","3","4","5","6","7","8","9">>

IsDigit(c) == \E i \in 1..10 : Digits[i] = c

DigitVal(c) == (CHOOSE i \in 1..10 : Digits[i] = c) - 1

RECURSIVE DecimalValue(_)
DecimalValue(s) ==
    IF s = <<>> THEN 0
    ELSE DecimalValue(SubSeq(s, 1, Len(s) - 1)) * 10 + DigitVal(s[Len(s)])

\* float(text) for integer-valued text: surrounding whitespace and a sign are
\* accepted; anything else raises ValueError (ok = FALSE)
PyFloat(text) ==
    LET t      == Strip(text)
        signed == t # <<>> /\ Head(t) \in {"-", "+"}
        body   == IF signed THEN Tail(t) ELSE t
    IN IF body # <<>> /\ \A i \in 1..Len(body) : IsDigit(body[i])
       THEN [ok |-> TRUE,
             v  |-> IF signed /\ Head(t) = "-" THEN 0 - DecimalValue(body)
                    ELSE DecimalValue(body)]
       ELSE [ok |-> FALSE, v |-> 0]

\* float(row.get(key, 0)) and, with orZero, float(row.get(key, 0) or 0)
FloatField(row, key, orZero) ==
    IF key \notin DOMAIN row THEN [ok |-> TRUE, v |-> 0]
    ELSE IF orZero /\ row[key] = <<>> THEN [ok |-> TRUE, v |-> 0]
    ELSE PyFloat(row[key])

\* s.split(c)
RECURSIVE SplitOn(_, _)
SplitOn(s, c) ==
    IF \A i \in 1..Len(s) : s[i] # c THEN <<s>>
    ELSE LET k == CHOOSE i \in 1..Len(s) :
                      s[i] = c /\ \A j \in 1..(i - 1) : s[j] # c
         IN <<SubSeq(s, 1, k - 1)>> \o SplitOn(SubSeq(s, k + 1, Len(s)), c)

(***************************************************************************)
(* A Python dict: the keys in insertion order and the value of each key    *)
(***************************************************************************)
EmptyDict == [keys |-> <<>>, val |-> <<>>]

\* d[k] = v
DictSet(d, k, v) ==
    [keys |-> IF k \in DOMAIN d.val THEN d.keys ELSE Append(d.keys, k),
     val  |-> (k :> v) @@ d.val]

(***************************************************************************)
(* Source loaders                                                          *)
(***************************************************************************)
HAYWARD == <<"H","A","Y","W","A","R","D">>

HaywardCA == <<"H","a","y","w","a","r","d",",","C","A">>

TrueText == <<"t","r","u","e">>

\* f"{street_num} {street_name}".strip(), then " " + unit when there is one
street_address_of(row) ==
    LET street_num  == Strip(Get(row, "SitusStreetNumber", <<>>))
        street_name == Strip(Get(row, "SitusStreetName", <<>>))
        street_unit == Strip(Get(row, "SitusUnit", <<>>))
        base        == Strip(street_num \o <<" ">> \o street_name)
    IN IF street_unit # <<>> THEN base \o <<" ">> \o street_unit ELSE base

\* variant: a failed coordinate falls back on its own, the other one stays
parcel_coords_field_by_field(row) ==
    LET y == FloatField(row, "CENTROID_Y", FALSE)
        x == FloatField(row, "CENTROID_X", FALSE)
    IN [lat |-> IF y.ok THEN y.v ELSE 0, lon |-> IF x.ok THEN x.v ELSE 0]

\* the first try block of parse_county_csv: both coordinates, or (0, 0) when
\* either float() raises
parcel_coords(row) ==
    LET y == FloatField(row, "CENTROID_Y", FALSE)
        x == FloatField(row, "CENTROID_X", FALSE)
    IN IF y.ok /\ x.ok THEN [lat |-> y.v, lon |-> x.v]
       ELSE [lat |-> 0, lon |-> 0]

\* variant: a failed value falls back on its own, the total falls back to 0
parcel_values_field_by_field(row) ==
    LET land == FloatField(row, "Land", TRUE)
        imps == FloatField(row, "Imps", TRUE)
    IN [land  |-> IF land.ok THEN land.v ELSE 0,
        imps  |-> IF imps.ok THEN imps.v ELSE 0,
        total |-> IF land.ok /\ imps.ok THEN land.v + imps.v ELSE 0]

\* the second try block of parse_county_csv: the two values and their sum, or
\* three zeros when either float() raises
parcel_values(row) ==
    LET land == FloatField(row, "Land", TRUE)
        imps == FloatField(row, "Imps", TRUE)
    IN IF land.ok /\ imps.ok
       THEN [land |-> land.v, imps |-> imps.v, total |-> land.v + imps.v]
       ELSE [land |-> 0, imps |-> 0, total |-> 0]

\* the record parse_county_csv stores for one row
county_record(row, apn) ==
    LET street_address == street_address_of(row)
        coords         == parcel_coords(row)
        values         == parcel_values(row)
    IN [apn                   |-> apn,
        property_address      |-> normalize_address(street_address),
        property_address_raw  |-> street_address,
        city                  |-> "Hayward",
        state                 |-> "CA",
        zip_code              |-> Get(row, "SitusZip", <<>>),
        latitude              |-> coords.lat,
        longitude             |-> coords.lon,
        land_value            |-> values.land,
        improvement_value     |-> values.imps,
        total_value           |-> values.total,
        data_source           |-> "county",
        owner_name            |-> NoneStr,
        owner_mailing_address |-> Get(row, "MailingAddress", <<>>),
        is_absentee           |-> FALSE,
        is_vacant             |-> FALSE]

\* variant: the municipality name is matched in upper case only
parse_county_row_exact_case(d, row) ==
    LET situs_city == Get(row, "SitusCity", <<>>)
        apn        == Strip(Get(row, "APN", <<>>))
    IN IF Contains(situs_city, HAYWARD) /\ apn # <<>>
       THEN DictSet(d, apn, county_record(row, apn))
       ELSE d

\* one iteration of the row loop of parse_county_csv
parse_county_row(d, row) ==
    LET situs_city == Upper(Get(row, "SitusCity", <<>>))
        apn        == Strip(Get(row, "APN", <<>>))
    IN IF Contains(situs_city, HAYWARD) /\ apn # <<>>
       THEN DictSet(d, apn, county_record(row, apn))
       ELSE d

RECURSIVE parse_county_csv(_, _)
parse_county_csv(rows, d) ==
    IF rows = <<>> THEN d
    ELSE parse_county_csv(Tail(rows), parse_county_row(d, Head(rows)))

\* the columns load_hayward_owners indexes with row[...]
OwnerRequired == {"property_address", "owner_name", "owner_mailing_address"}

\* a row of a file whose header has no such column
WithoutColumn(row, column) == [c \in DOMAIN row \ {column} |-> row[c]]

\* row[...] raises KeyError: at line 120 for property_address, at lines
\* 123-124, reached when the address is not empty, for the other two
owner_row_raises(row) ==
    \/ "property_address" \notin DOMAIN row
    \/ /\ normalize_address(row["property_address"]) # <<>>
       /\ \/ "owner_name" \notin DOMAIN row
          \/ "owner_mailing_address" \notin DOMAIN row

\* variant: a source file that cannot be opened is taken as empty
on_open_error_continue(step) ==
    CASE step = "parse"  -> "owners"
      [] step = "owners" -> "vacant"
      [] OTHER           -> "merge"

\* main has no handler around the loaders
on_open_error(step) == "aborted"

\* variant: an address already loaded keeps its first owner
load_owner_row_first_wins(d, row) ==
    LET addr == normalize_address(row["property_address"])
    IN IF addr # <<>> /\ addr \notin DOMAIN d.val
       THEN DictSet(d, addr,
                [owner_name            |-> row["owner_name"],
                 owner_mailing_address |-> row["owner_mailing_address"],
                 is_absentee |-> Lower(Get(row, "is_absentee", <<>>)) = TrueText])
       ELSE d

\* one iteration of the row loop of load_hayward_owners
load_owner_row(d, row) ==
    LET addr == normalize_address(row["property_address"])
    IN IF addr # <<>>
       THEN DictSet(d, addr,
                [owner_name            |-> row["owner_name"],
                 owner_mailing_address |-> row["owner_mailing_address"],
                 is_absentee |-> Lower(Get(row, "is_absentee", <<>>)) = TrueText])
       ELSE d

RECURSIVE load_hayward_owners(_, _)
load_hayward_owners(rows, d) ==
    IF rows = <<>> THEN d
    ELSE load_hayward_owners(Tail(rows), load_owner_row(d, Head(rows)))

\* variant: a line counts only when it has both an apn and an address
load_vacant_line_both_required(v, line) ==
    LET parts == SplitOn(Strip(line), ",") IN
    IF Contains(line, HaywardCA) /\ Len(parts) > 5
    THEN LET apn  == Strip(parts[1])
             addr == normalize_address(Strip(parts[5]))
         IN IF apn # <<>> /\ addr # <<>>
            THEN [apns |-> v.apns \cup {apn}, byAddr |-> v.byAddr \cup {addr}]
            ELSE v
    ELSE v

\* one iteration of the line loop of load_jeff_vacant; v is the pair of results
load_vacant_line(v, line) ==
    LET parts == SplitOn(Strip(line), ",") IN
    IF Contains(line, HaywardCA) /\ Len(parts) > 5
    THEN LET apn  == Strip(parts[1])
             addr == normalize_address(Strip(parts[5]))
         IN [apns   |-> IF apn # <<>> THEN v.apns \cup {apn} ELSE v.apns,
             byAddr |-> IF addr # <<>> THEN v.byAddr \cup {addr} ELSE v.byAddr]
    ELSE v

RECURSIVE load_vacant_lines(_, _)
load_vacant_lines(lines, v) ==
    IF lines = <<>> THEN v
    ELSE load_vacant_lines(Tail(lines), load_vacant_line(v, Head(lines)))

\* for line in lines[2:]
load_jeff_vacant(lines) ==
    load_vacant_lines(SubSeq(lines, 3, Len(lines)),
                      [apns |-> {}, byAddr |-> {}])

(***************************************************************************)
(* Merge engine                                                            *)
(***************************************************************************)
\* a merge that forgets is_absentee
merge_owner_partial(prop, owners) ==
    LET addr == prop.property_address IN
    IF addr \in DOMAIN owners
    THEN [prop EXCEPT !.owner_name            = owners[addr].owner_name,
                      !.owner_mailing_address = owners[addr].owner_mailing_address]
    ELSE prop

\* if addr in owners_by_address: the three owner fields are overwritten
merge_owner(prop, owners) ==
    LET addr == prop.property_address IN
    IF addr \in DOMAIN owners
    THEN [prop EXCEPT !.owner_name            = owners[addr].owner_name,
                      !.owner_mailing_address = owners[addr].owner_mailing_address,
                      !.is_absentee           = owners[addr].is_absentee]
    ELSE prop

\* a merge that looks a parcel up by id only
merge_vacant_by_id_only(apn, prop, vapns, vaddrs) ==
    IF apn \in vapns THEN [prop EXCEPT !.is_vacant = TRUE] ELSE prop

\* if apn in vacant_apns ... elif addr in vacant_by_address
merge_vacant(apn, prop, vapns, vaddrs) ==
    IF apn \in vapns THEN [prop EXCEPT !.is_vacant = TRUE]
    ELSE IF prop.property_address \in vaddrs
         THEN [prop EXCEPT !.is_vacant = TRUE]
         ELSE prop

\* an inner join: a parcel without an owner record is dropped
merge_parcel_inner_join(props, apn, owners, vapns, vaddrs) ==
    IF props[apn].property_address \in DOMAIN owners
    THEN [props EXCEPT ![apn] = merge_vacant(apn, merge_owner(props[apn], owners),
                                             vapns, vaddrs)]
    ELSE [k \in DOMAIN props \ {apn} |-> props[k]]

\* one iteration of the loop of merge_data: prop is updated in place
merge_parcel(props, apn, owners, vapns, vaddrs) ==
    [props EXCEPT ![apn] = merge_vacant(apn, merge_owner(props[apn], owners),
                                        vapns, vaddrs)]

PipeIdle ==
    /\ countyRows = <<>>
    /\ ownerRows = <<>>
    /\ vacantLines = <<>>
    /\ county_properties = EmptyDict
    /\ owners_by_address = <<>>
    /\ vacant_apns = {}
    /\ vacant_by_address = {}
    /\ mergeIdx = 0
    /\ matched_owners = 0
    /\ matched_vacant = 0
    /\ parsed = <<>>
    /\ ppc = "idle"
    /\ stepsDone = <<>>
    /\ pipeError = "none"
    /\ outputs = <<>>

(***************************************************************************)
(* Importers: the records sent to master_properties                        *)
(***************************************************************************)
\* a nullable numeric column: NULL, or a number
NullNum == <<>>

Num(v) == <<v>>

\* x or None, for text
OrNone(x) == IF x = <<>> \/ x = NoneStr THEN NoneStr ELSE x

\* x if x else None, for a number
NumOrNone(v) == IF v # 0 THEN Num(v) ELSE NullNum

\* import_to_supabase.batch_insert_properties: the record of the batch upsert
batch_record(prop) ==
    [apn                   |-> prop.apn,
     property_address      |-> prop.property_address_raw,
     city                  |-> prop.city,
     state                 |-> prop.state,
     zip_code              |-> prop.zip_code,
     owner_name            |-> OrNone(prop.owner_name),
     owner_mailing_address |-> OrNone(prop.owner_mailing_address),
     is_absentee           |-> prop.is_absentee,
     land_value            |-> Num(prop.land_value),
     improvement_value     |-> Num(prop.improvement_value),
     total_value           |-> Num(prop.total_value),
     latitude              |-> NumOrNone(prop.latitude),
     longitude             |-> NumOrNone(prop.longitude),
     is_vacant             |-> prop.is_vacant,
     data_source           |-> "county"]

\* import_to_supabase.batch_insert_properties: the record of the per-record
\* retry
retry_record(prop) ==
    [apn                   |-> prop.apn,
     property_address      |-> prop.property_address_raw,
     city                  |-> "Hayward",
     state                 |-> "CA",
     zip_code              |-> prop.zip_code,
     owner_name            |-> prop.owner_name,
     owner_mailing_address |-> prop.owner_mailing_address,
     is_absentee           |-> prop.is_absentee,
     land_value            |-> Num(prop.land_value),
     improvement_value     |-> Num(prop.improvement_value),
     total_value           |-> Num(prop.total_value),
     latitude              |-> Num(prop.latitude),
     longitude             |-> Num(prop.longitude),
     is_vacant             |-> prop.is_vacant,
     data_source           |-> "county"]

\* run_import.main and run_import_service.main: the record of the batch upsert
run_record(prop) ==
    [apn                   |-> prop.apn,
     property_address      |-> prop.property_address_raw,
     city                  |-> "Hayward",
     state                 |-> "CA",
     zip_code              |-> prop.zip_code,
     owner_name            |-> prop.owner_name,
     owner_mailing_address |-> prop.owner_mailing_address,
     is_absentee           |-> prop.is_absentee,
     land_value            |-> Num(prop.land_value),
     improvement_value     |-> Num(prop.improvement_value),
     total_value           |-> Num(prop.total_value),
     latitude              |-> NumOrNone(prop.latitude),
     longitude             |-> NumOrNone(prop.longitude),
     is_vacant             |-> prop.is_vacant,
     data_source           |-> "county"]

\* supabase.table('master_properties').upsert(recs): a row per apn, the row of
\* an apn already present replaced by the record sent; of two records of recs
\* with one apn the later one stays
Upsert(table, recs) ==
    LET sent == { recs[k].apn : k \in 1..Len(recs) } IN
    [a \in (DOMAIN table) \cup sent |->
        IF a \in sent
        THEN recs[CHOOSE k \in 1..Len(recs) :
                      /\ recs[k].apn = a
                      /\ \A m \in (k + 1)..Len(recs) : recs[m].apn # a]
        ELSE table[a]]

RetryThreshold == 10

MaxPartial == 1

RunImportBatchSize == 50

ServiceBatchSize == 100

\* how many records of a batch the store may have applied when it rejects the
\* batch: not all of them, and at most MaxPartial
PartlyApplied(b) ==
    0..(IF Len(b) - 1 < MaxPartial THEN Len(b) - 1 ELSE MaxPartial)

\* properties[i:i+batch_size], i counted from 0
BatchAt(props, i, bs) ==
    SubSeq(props, i + 1, IF i + bs < Len(props) THEN i + bs ELSE Len(props))

ApnsOf(props) == [k \in 1..Len(props) |-> props[k].apn]

\* the step of range(0, total, batch_size)
next_batch_start(i, bs) == i + bs

\* a rejected batch that is never retried
after_rejected_batch_no_retry(bs) == "batch"

\* a rejected batch that ends the import
after_rejected_batch_abort(bs) == "done"

\* where batch_insert_properties goes after a rejected batch: into the
\* per-record retry when batch_size > 10, on to the next batch otherwise
\* variant: a record imported by the retry stays counted as failed
failed_after_retry_kept(f) == f

\* failed -= 1, after the retry of a record was accepted
failed_after_retry(f) == f - 1

after_rejected_batch(bs) == IF bs > RetryThreshold THEN "retry" ELSE "batch"

\* only the first record of the rejected batch is recorded
failed_apns_first_only(batch) == <<batch[1].apn>>

\* what run_import appends to failed_apns for a rejected batch
failed_apns_of(batch) == ApnsOf(batch)

ImpLocalIdle ==
    /\ script = "none"
    /\ properties = <<>>
    /\ batch_size = 0
    /\ ipos = 0
    /\ rj = 0
    /\ inserted = 0
    /\ failed = 0
    /\ failed_apns = <<>>
    /\ upsertLog = <<>>
    /\ rejectsLeft = 0
    /\ run = 0
    /\ storeRun1 = <<>>
    /\ ipc = "idle"

ImpIdle == ImpLocalIdle /\ store = <<>>

(***************************************************************************)
(* Update detector                                                         *)
(***************************************************************************)
ValueThreshold == 1000

\* abs()
Abs(x) == IF x < 0 THEN 0 - x ELSE x

\* variant: owner names compared without regard to case
title_transfer_ignoring_case(new_owner, stored_owner) ==
    /\ new_owner # <<>>
    /\ \/ stored_owner = NoneStr
       \/ Upper(new_owner) # Upper(stored_owner)

\* variant: a difference of exactly the threshold counts as a change
value_change_at_threshold(new, stored_value) ==
    /\ new.ok
    /\ new.v > 0
    /\ stored_value # NullNum
    /\ Abs(new.v - stored_value[1]) >= ValueThreshold

\* new_owner and new_owner != prop['owner_name'], new_owner the trimmed name
title_transfer_detected(new_owner, stored_owner) ==
    new_owner # <<>> /\ new_owner # stored_owner

\* the value test of check_for_updates for new = float(TotalValue or 0):
\* float() raising, or the subtraction raising on a stored NULL, is swallowed
\* by the bare except and records nothing
value_change_detected(new, stored_value) ==
    /\ new.ok
    /\ new.v > 0
    /\ stored_value # NullNum
    /\ Abs(new.v - stored_value[1]) > ValueThreshold

EmptyUpdates ==
    [new_properties  |-> <<>>,
     title_transfers |-> <<>>,
     value_changes   |-> <<>>,
     vacant_changes  |-> <<>>]

EmptyRow ==
    [SitusCity |-> <<>>, APN |-> <<>>, SitusAddress |-> <<>>,
     OwnerName |-> <<>>, TotalValue |-> <<>>]

\* variant: rows of every municipality are handled
in_target_any_city(row) == Strip(Get(row, "APN", <<>>)) # <<>>

\* the rows check_for_updates handles: Hayward rows with an apn
InTarget(row) ==
    /\ Contains(Upper(Get(row, "SitusCity", <<>>)), HAYWARD)
    /\ Strip(Get(row, "APN", <<>>)) # <<>>

new_property_entry(row) ==
    [apn     |-> Strip(Get(row, "APN", <<>>)),
     address |-> Get(row, "SitusAddress", <<>>),
     owner   |-> Get(row, "OwnerName", <<>>)]

title_transfer_entry(row, prop) ==
    [apn       |-> Strip(Get(row, "APN", <<>>)),
     address   |-> prop.property_address,
     old_owner |-> prop.owner_name,
     new_owner |-> Strip(Get(row, "OwnerName", <<>>))]

value_change_entry(row, prop) ==
    LET new_value == FloatField(row, "TotalValue", TRUE).v IN
    [apn       |-> Strip(Get(row, "APN", <<>>)),
     address   |-> prop.property_address,
     old_value |-> prop.total_value,
     new_value |-> new_value,
     change    |-> new_value - prop.total_value[1]]

\* the else branch of check_for_updates: the two tests, one after the other
compare_existing(upd, row, prop) ==
    LET new_owner == Strip(Get(row, "OwnerName", <<>>))
        withTitle ==
            IF title_transfer_detected(new_owner, prop.owner_name)
            THEN [upd EXCEPT !.title_transfers =
                                 Append(@, title_transfer_entry(row, prop))]
            ELSE upd
    IN IF value_change_detected(FloatField(row, "TotalValue", TRUE),
                                prop.total_value)
       THEN [withTitle EXCEPT !.value_changes =
                                  Append(@, value_change_entry(row, prop))]
       ELSE withTitle

UpdIdle ==
    /\ rowsRead = 0
    /\ lastRow = EmptyRow
    /\ updates = EmptyUpdates
    /\ prevUpdates = EmptyUpdates
    /\ upc = "idle"

\* one iteration of the loop of check_for_updates
check_row(upd, table, row) ==
    IF ~InTarget(row) THEN upd
    ELSE IF Strip(Get(row, "APN", <<>>)) \notin DOMAIN table
    THEN [upd EXCEPT !.new_properties = Append(@, new_property_entry(row))]
    ELSE compare_existing(upd, row, table[Strip(Get(row, "APN", <<>>))])

\* check_for_updates over the rows of a snapshot
RECURSIVE check_for_updates(_, _)
check_for_updates(table, rows) ==
    IF rows = <<>> THEN EmptyUpdates
    ELSE check_row(check_for_updates(table, SubSeq(rows, 1, Len(rows) - 1)),
                   table, rows[Len(rows)])

(***************************************************************************)
(* Applying the updates                                                    *)
(***************************************************************************)
\* variant: the new properties are inserted before the title transfers
loop_after_inserts_first(phase) ==
    CASE phase = "checked"        -> "apply_new"
      [] phase = "apply_new"      -> "apply_transfer"
      [] OTHER                    -> "applied"

\* apply_updates: the loop over title_transfers, then the loop over
\* new_properties, then the return
loop_after(phase) ==
    CASE phase = "checked"        -> "apply_transfer"
      [] phase = "apply_transfer" -> "apply_new"
      [] OTHER                    -> "applied"

\* any(updates.values())
any_updates(upd) ==
    \/ upd.new_properties # <<>>
    \/ upd.title_transfers # <<>>
    \/ upd.value_changes # <<>>
    \/ upd.vacant_changes # <<>>

\* update({'owner_name': new_owner, ...}).eq('apn', apn): the rows with that
\* apn get the new owner (the two timestamps are not modelled)
update_owner(table, apn, new_owner) ==
    [a \in DOMAIN table |->
        IF a = apn THEN [table[a] EXCEPT !.owner_name = new_owner]
        ELSE table[a]]

\* the row inserted into property_alerts; details is the text made of the two
\* owner names
alert_row(transfer) ==
    [apn        |-> transfer.apn,
     alert_type |-> "title_transfer",
     details    |-> <<transfer.old_owner, transfer.new_owner>>]

\* the row inserted into master_properties for a new property: the columns
\* the insert does not name are NULL
new_property_row(prop) ==
    [apn                   |-> prop.apn,
     property_address      |-> prop.address,
     city                  |-> "Hayward",
     state                 |-> "CA",
     zip_code              |-> NoneStr,
     owner_name            |-> prop.owner,
     owner_mailing_address |-> NoneStr,
     is_absentee           |-> FALSE,
     land_value            |-> NullNum,
     improvement_value     |-> NullNum,
     total_value           |-> NullNum,
     latitude              |-> NullNum,
     longitude             |-> NullNum,
     is_vacant             |-> FALSE,
     data_source           |-> "county"]

\* a store operation as issued: the table, the operation, the apn, and
\* whether the store carried it out
StoreOp(table, op, apn, ok) ==
    [table |-> table, op |-> op, apn |-> apn, ok |-> ok]

ApplyIdle ==
    /\ apos = 0
    /\ alerts = <<>>
    /\ opLog = <<>>

RecheckIdle ==
    /\ snapshot = <<>>
    /\ rechecked = EmptyUpdates

SqlIdle ==
    /\ sqlProps = EmptyDict
    /\ sqlValues = <<>>
    /\ sqlPos = 0
    /\ sqlBefore = <<>>
    /\ spc = "idle"

(***************************************************************************)
(* Inputs of the normalizer: up to MaxTokens pieces of address text        *)
(***************************************************************************)
MaxTokens == 4

AddrTokens == {
    <<"1">>, <<" ">>, <<"\t">>,
    <<"E","A","S","T">>,
    <<"F","i","r","s","t">>,
    <<"S","T","R","E","E","T">>,
    <<"S","T">> }

RECURSIVE Flatten(_)
Flatten(ts) == IF ts = <<>> THEN <<>> ELSE Head(ts) \o Flatten(Tail(ts))

AddrInputs ==
    {NoneStr} \cup
    { Flatten(ts) : ts \in UNION { [1..n -> AddrTokens] : n \in 0..MaxTokens } }

NormIdle ==
    /\ nInput = <<>>
    /\ nOnce = <<>>
    /\ nTwice = <<>>
    /\ npc = "idle"

NormInit ==
    /\ nInput \in AddrInputs
    /\ nOnce = <<>>
    /\ nTwice = <<>>
    /\ npc = "start"
    /\ PipeIdle
    /\ ImpIdle
    /\ UpdIdle
    /\ ApplyIdle
    /\ SqlIdle
    /\ RecheckIdle

\* key = normalize_address(raw)
NormalizeOnce ==
    /\ npc = "start"
    /\ nOnce' = normalize_address(nInput)
    /\ npc' = "once"
    /\ UNCHANGED <<nInput, nTwice>>
    /\ UNCHANGED <<pipeVars, impVars, updVars, applyVars, sqlVars, recheckVars>>

\* normalize_address(key), the key normalized again
NormalizeTwice ==
    /\ npc = "once"
    /\ nTwice' = normalize_address(nOnce)
    /\ npc' = "twice"
    /\ UNCHANGED <<nInput, nOnce>>
    /\ UNCHANGED <<pipeVars, impVars, updVars, applyVars, sqlVars, recheckVars>>

NormNext == NormalizeOnce \/ NormalizeTwice

SpecNorm == NormInit /\ [][NormNext]_vars

\* C4: normalize_address is idempotent: normalizing a normalized address
\* gives the same string as normalizing once.
C4_NormalizeIdempotent == npc = "twice" => nTwice = nOnce

(***************************************************************************)
(* process_county_data.main: the three source files, at most MaxCountyRows *)
(* parcel rows, MaxOwnerRows owner rows and MaxVacantLines vacancy lines   *)
(* (the two header lines included).  countyRows, ownerRows and vacantLines *)
(* are the rows the running loader has read: locals of the loader, out of  *)
(* scope once the next step runs.                                          *)
(***************************************************************************)
MaxCountyRows == 2

MaxOwnerRows == 2

MaxVacantLines == 3

CountyRowA ==
    [SitusCity |-> <<"H","a","y","w","a","r","d">>,
     APN |-> <<"1">>,
     SitusStreetNumber |-> <<"9">>,
     SitusStreetName |-> <<"O","a","k"," ","S","t","r","e","e","t">>,
     SitusUnit |-> <<>>,
     CENTROID_Y |-> <<"3","7">>,
     CENTROID_X |-> <<"-","1","2","2">>,
     Land |-> <<"3","0","0">>,
     Imps |-> <<"2","0","0">>,
     MailingAddress |-> <<"P","O"," ","B","O","X"," ","9">>,
     SitusZip |-> <<"9","4","5","4","1">>]

CountyRowB ==
    [SitusCity |-> <<"H","A","Y","W","A","R","D"," ","C","A">>,
     APN |-> <<" ","2"," ">>,
     SitusStreetNumber |-> <<"5">>,
     SitusStreetName |-> <<"F","i","r","s","t"," ","A","v","e">>,
     SitusUnit |-> <<"B">>,
     CENTROID_Y |-> <<>>,
     CENTROID_X |-> <<"-","1","2","2">>,
     Land |-> <<"N","/","A">>,
     Imps |-> <<"1","0","0">>,
     MailingAddress |-> <<"P","O"," ","B","O","X"," ","7">>,
     SitusZip |-> <<>>]

CountyRowC ==
    [SitusCity |-> <<"O","a","k","l","a","n","d">>,
     APN |-> <<"3">>,
     SitusStreetNumber |-> <<"9">>,
     SitusStreetName |-> <<"O","a","k"," ","S","t","r","e","e","t">>,
     SitusUnit |-> <<>>,
     CENTROID_Y |-> <<"3","7">>,
     CENTROID_X |-> <<"-","1","2","2">>,
     Land |-> <<"1","0">>,
     Imps |-> <<"2","0">>,
     MailingAddress |-> <<>>,
     SitusZip |-> <<"9","4","6","0","1">>]

CountyRowD ==
    [SitusCity |-> <<"h","a","y","w","a","r","d">>,
     APN |-> <<" ">>,
     SitusStreetNumber |-> <<"5">>,
     SitusStreetName |-> <<"F","i","r","s","t"," ","A","v","e">>,
     SitusUnit |-> <<"B">>,
     CENTROID_Y |-> <<"3","7">>,
     CENTROID_X |-> <<"-","1","2","2">>,
     Land |-> <<"1","0">>,
     Imps |-> <<"2","0">>,
     MailingAddress |-> <<>>,
     SitusZip |-> <<"9","4","5","4","1">>]

CountyRowE ==
    [SitusCity |-> <<"H","a","y","w","a","r","d">>,
     APN |-> <<"1">>,
     SitusStreetNumber |-> <<"7">>,
     SitusStreetName |-> <<"E","l","m"," ","R","d">>,
     SitusUnit |-> <<>>,
     CENTROID_Y |-> <<"3","7">>,
     CENTROID_X |-> <<"x">>,
     Land |-> <<"-","5","0","0">>,
     Imps |-> <<"1","0","0">>,
     MailingAddress |-> <<"7"," ","E","L","M"," ","R","D">>,
     SitusZip |-> <<"9","4","5","4","1">>]

CountyRowSet == {CountyRowA, CountyRowB, CountyRowC, CountyRowD, CountyRowE}

OwnerRowA ==
    [property_address |-> <<"9"," ","o","a","k"," ","s","t">>,
     owner_name |-> <<"J","A","N","E"," ","D","O","E"," ","T","R","U","S","T">>,
     owner_mailing_address |-> <<"P","O"," ","B","O","X"," ","1">>,
     is_absentee |-> <<"T","r","u","e">>]

OwnerRowB ==
    [property_address |-> <<"9"," ","O","a","k"," "," ","S","t","r","e","e","t">>,
     owner_name |-> <<>>,
     owner_mailing_address |-> <<>>,
     is_absentee |-> <<"f","a","l","s","e">>]

OwnerRowC ==
    [property_address |-> <<"5"," ","F","I","R","S","T"," ","A","V","E","N","U","E"," ","B">>,
     owner_name |-> <<"B","O","B">>,
     owner_mailing_address |-> <<"P","O"," ","B","O","X"," ","7">>,
     is_absentee |-> <<"t","r","u","e">>]

OwnerRowD ==
    [property_address |-> <<" ">>,
     owner_name |-> <<"B","O","B">>,
     owner_mailing_address |-> <<"P","O"," ","B","O","X"," ","7">>,
     is_absentee |-> <<>>]

OwnerRowSet == {OwnerRowA, OwnerRowB, OwnerRowC, OwnerRowD}

VacantLineA ==
    <<"1",",","x",",","x",",","x",",",",","H","a","y","w","a","r","d",",","C","A">>

VacantLineB ==
    <<" ",",","x",",","x",",","x",",","5"," ","F","i","r","s","t"," ","A","v","e","n","u","e"," "," ","B",",","H","a","y","w","a","r","d",",","C","A","\t">>

VacantLineC ==
    <<"2",",","x",",","x",",","x",",","9"," ","O","a","k"," ","S","t",",","H","a","y","w","a","r","d",","," ","C","A">>

VacantLineD ==
    <<"3",",","9"," ","O","a","k"," ","S","t",",","H","a","y","w","a","r","d",",","C","A">>

VacantLineSet == {VacantLineA, VacantLineB, VacantLineC, VacantLineD}

SeqsUpTo(S, n) == UNION { [1..k -> S] : k \in 0..n }

\* the vacancy files: two header lines, one that would qualify as a data
\* line or one that would not, and then data lines
VacantHeaderSet == {VacantLineA, VacantLineD}

VacantFiles ==
    { lines \in SeqsUpTo(VacantLineSet, MaxVacantLines) :
          \A k \in 1..Len(lines) : k <= 2 => lines[k] \in VacantHeaderSet }

PipeInit ==
    /\ countyRows = <<>>
    /\ ownerRows = <<>>
    /\ vacantLines = <<>>
    /\ county_properties = EmptyDict
    /\ owners_by_address = <<>>
    /\ vacant_apns = {}
    /\ vacant_by_address = {}
    /\ mergeIdx = 0
    /\ matched_owners = 0
    /\ matched_vacant = 0
    /\ parsed = <<>>
    /\ ppc = "parse"
    /\ stepsDone = <<>>
    /\ pipeError = "none"
    /\ outputs = <<>>
    /\ NormIdle
    /\ ImpIdle
    /\ UpdIdle
    /\ ApplyIdle
    /\ SqlIdle
    /\ RecheckIdle

\* Step 1: county_properties = parse_county_csv(), for any content of the file
ParseCounty ==
    /\ ppc = "parse"
    /\ stepsDone' = Append(stepsDone, "parse")
    /\ UNCHANGED <<pipeError, outputs>>
    /\ \E rows \in SeqsUpTo(CountyRowSet, MaxCountyRows) :
           /\ countyRows' = rows
           /\ county_properties' = parse_county_csv(rows, EmptyDict)
    /\ parsed' = county_properties'.val
    /\ ppc' = "owners"
    /\ UNCHANGED <<ownerRows, vacantLines, owners_by_address, vacant_apns,
                   vacant_by_address, mergeIdx, matched_owners, matched_vacant>>
    /\ UNCHANGED <<normVars, impVars, updVars, applyVars, sqlVars, recheckVars>>

\* Step 2: owners_by_address = load_hayward_owners(), for any content of the
\* file; the parcel loader's rows went out of scope when it returned
LoadOwners ==
    /\ ppc = "owners"
    /\ stepsDone' = Append(stepsDone, "owners")
    /\ UNCHANGED <<pipeError, outputs>>
    /\ \E rows \in SeqsUpTo(OwnerRowSet, MaxOwnerRows) :
           /\ ownerRows' = rows
           /\ owners_by_address' = load_hayward_owners(rows, EmptyDict).val
    /\ countyRows' = <<>>
    /\ ppc' = "vacant"
    /\ UNCHANGED <<vacantLines, county_properties, vacant_apns,
                   vacant_by_address, mergeIdx, matched_owners, matched_vacant,
                   parsed>>
    /\ UNCHANGED <<normVars, impVars, updVars, applyVars, sqlVars, recheckVars>>

\* Step 3: vacant_apns, vacant_by_address = load_jeff_vacant(), for any
\* content of the file; then merge_data is entered
LoadVacant ==
    /\ ppc = "vacant"
    /\ stepsDone' = Append(stepsDone, "vacant")
    /\ UNCHANGED <<pipeError, outputs>>
    /\ \E lines \in VacantFiles :
           LET loaded == load_jeff_vacant(lines) IN
           /\ vacantLines' = lines
           /\ vacant_apns' = loaded.apns
           /\ vacant_by_address' = loaded.byAddr
    /\ ownerRows' = <<>>
    /\ mergeIdx' = 1
    /\ matched_owners' = 0
    /\ matched_vacant' = 0
    /\ ppc' = "merge"
    /\ UNCHANGED <<countyRows, county_properties, owners_by_address, parsed>>
    /\ UNCHANGED <<normVars, impVars, updVars, applyVars, sqlVars, recheckVars>>

\* Step 4, one iteration of: for apn, prop in county_properties.items()
MergeParcel ==
    /\ ppc = "merge"
    /\ UNCHANGED <<stepsDone, pipeError, outputs>>
    /\ mergeIdx <= Len(county_properties.keys)
    /\ LET apn  == county_properties.keys[mergeIdx]
           addr == county_properties.val[apn].property_address
       IN /\ county_properties' =
                 [county_properties EXCEPT
                     !.val = merge_parcel(@, apn, owners_by_address,
                                          vacant_apns, vacant_by_address)]
          /\ matched_owners' = IF addr \in DOMAIN owners_by_address
                               THEN matched_owners + 1 ELSE matched_owners
          /\ matched_vacant' = IF apn \in vacant_apns \/ addr \in vacant_by_address
                               THEN matched_vacant + 1 ELSE matched_vacant
    /\ mergeIdx' = mergeIdx + 1
    /\ vacantLines' = <<>>
    /\ UNCHANGED <<countyRows, ownerRows, owners_by_address, vacant_apns,
                   vacant_by_address, parsed, ppc>>
    /\ UNCHANGED <<normVars, impVars, updVars, applyVars, sqlVars, recheckVars>>

\* the end of merge_data: the match rate divides by len(county_properties),
\* a ZeroDivisionError when no parcel was loaded
MergeReturn ==
    /\ ppc = "merge"
    /\ mergeIdx > Len(county_properties.keys)
    /\ ppc' = IF Len(county_properties.keys) = 0 THEN "crashed" ELSE "merged"
    /\ stepsDone' = IF Len(county_properties.keys) = 0 THEN stepsDone
                    ELSE Append(stepsDone, "merge")
    /\ pipeError' = IF Len(county_properties.keys) = 0
                    THEN "ZeroDivisionError" ELSE pipeError
    /\ outputs' = outputs
    /\ vacantLines' = <<>>
    /\ UNCHANGED <<countyRows, ownerRows, county_properties, owners_by_address,
                   vacant_apns, vacant_by_address, mergeIdx, matched_owners,
                   matched_vacant, parsed>>
    /\ UNCHANGED <<normVars, impVars, updVars, applyVars, sqlVars, recheckVars>>

\* open() of the source file of the step at hand raises: nothing catches it
\* and the run ends there
OpenFails ==
    /\ ppc \in {"parse", "owners", "vacant"}
    /\ ppc' = on_open_error(ppc)
    /\ pipeError' = "FileNotFoundError"
    /\ mergeIdx' = IF ppc' = "merge" THEN 1 ELSE mergeIdx
    /\ stepsDone' = IF ppc' = "aborted" THEN stepsDone
                    ELSE Append(stepsDone, ppc)
    /\ UNCHANGED <<countyRows, ownerRows, vacantLines, county_properties,
                   owners_by_address, vacant_apns, vacant_by_address,
                   matched_owners, matched_vacant, parsed, outputs>>
    /\ UNCHANGED <<normVars, impVars, updVars, applyVars, sqlVars, recheckVars>>

\* Step 2 on an owner file whose header lacks one of the columns the loader
\* indexes: the first row that reaches the missing column raises KeyError
LoadOwnersShortHeader ==
    /\ ppc = "owners"
    /\ \E full \in SeqsUpTo(OwnerRowSet, MaxOwnerRows) :
       \E column \in OwnerRequired :
           LET rows == [i \in 1..Len(full) |-> WithoutColumn(full[i], column)]
               raises == \E i \in 1..Len(rows) : owner_row_raises(rows[i])
           IN /\ ownerRows' = rows
              /\ owners_by_address' = <<>>
              /\ ppc' = IF raises THEN "aborted" ELSE "vacant"
              /\ pipeError' = IF raises THEN "KeyError" ELSE pipeError
              /\ stepsDone' = IF raises THEN stepsDone
                              ELSE Append(stepsDone, "owners")
    /\ countyRows' = <<>>
    /\ UNCHANGED <<vacantLines, county_properties, vacant_apns,
                   vacant_by_address, mergeIdx, matched_owners, matched_vacant,
                   parsed, outputs>>
    /\ UNCHANGED <<normVars, impVars, updVars, applyVars, sqlVars, recheckVars>>

\* Step 5: generate_sql_inserts writes import_properties.sql
EmitSql ==
    /\ ppc = "merged"
    /\ outputs' = Append(outputs, "sql")
    /\ stepsDone' = Append(stepsDone, "sql")
    /\ ppc' = "sql_written"
    /\ UNCHANGED <<countyRows, ownerRows, vacantLines, county_properties,
                   owners_by_address, vacant_apns, vacant_by_address, mergeIdx,
                   matched_owners, matched_vacant, parsed, pipeError>>
    /\ UNCHANGED <<normVars, impVars, updVars, applyVars, sqlVars, recheckVars>>

\* Step 6: generate_json_export writes hayward_properties.json
EmitJson ==
    /\ ppc = "sql_written"
    /\ outputs' = Append(outputs, "json")
    /\ stepsDone' = Append(stepsDone, "json")
    /\ ppc' = "done"
    /\ UNCHANGED <<countyRows, ownerRows, vacantLines, county_properties,
                   owners_by_address, vacant_apns, vacant_by_address, mergeIdx,
                   matched_owners, matched_vacant, parsed, pipeError>>
    /\ UNCHANGED <<normVars, impVars, updVars, applyVars, sqlVars, recheckVars>>

PipeNext ==
    \/ ParseCounty \/ LoadOwners \/ LoadVacant \/ MergeParcel \/ MergeReturn
    \/ OpenFails \/ LoadOwnersShortHeader \/ EmitSql \/ EmitJson

SpecPipe == PipeInit /\ [][PipeNext]_vars

InMerge == ppc \in {"merge", "merged", "crashed"}

\* the parcels merge_data has already handled, in iteration order
MergedApns == { county_properties.keys[i] : i \in 1..(mergeIdx - 1) }

OwnerTriple(r) == <<r.owner_name, r.owner_mailing_address, r.is_absentee>>

\* C1: merge_data never adds or removes parcels: the apn keys of the merged
\* set are those of the parcel loader's output, and each entry's apn field
\* equals its key.
C1_MergeKeepsKeys ==
    InMerge =>
        /\ DOMAIN county_properties.val = DOMAIN parsed
        /\ { county_properties.keys[i] :
                i \in 1..Len(county_properties.keys) } = DOMAIN parsed
        /\ \A apn \in DOMAIN county_properties.val :
               county_properties.val[apn].apn = apn

C1_Witness ==
    /\ ppc = "merged"
    /\ Cardinality(DOMAIN parsed) = 2
    /\ \E apn \in DOMAIN parsed : county_properties.val[apn] # parsed[apn]
    /\ \E apn \in DOMAIN parsed : county_properties.val[apn] = parsed[apn]

\* C2: after merge_data a parcel's (owner_name, owner_mailing_address,
\* is_absentee) is the triple of the owner record stored under the parcel's
\* normalized address when there is one, and the parcel's pre-merge triple
\* when there is none; never a mix of the two.
C2_OwnerTriple ==
    InMerge =>
        \A apn \in MergedApns :
            LET addr == parsed[apn].property_address IN
            OwnerTriple(county_properties.val[apn]) =
                IF addr \in DOMAIN owners_by_address
                THEN OwnerTriple(owners_by_address[addr])
                ELSE OwnerTriple(parsed[apn])

C2_Witness ==
    /\ ppc = "merged"
    /\ \E apn \in DOMAIN parsed :
           /\ parsed[apn].property_address \in DOMAIN owners_by_address
           /\ county_properties.val[apn].owner_name # parsed[apn].owner_name
           /\ county_properties.val[apn].owner_mailing_address
                  # parsed[apn].owner_mailing_address
           /\ county_properties.val[apn].is_absentee # parsed[apn].is_absentee
    /\ \E apn \in DOMAIN parsed :
           /\ parsed[apn].property_address \notin DOMAIN owners_by_address
           /\ parsed[apn].owner_mailing_address # <<>>

\* C3: after merge_data is_vacant is true exactly when the parcel's apn is in
\* the vacancy-by-id set or its normalized address is in the
\* vacancy-by-address set.
C3_VacantIsOr ==
    InMerge =>
        \A apn \in MergedApns :
            county_properties.val[apn].is_vacant
                <=> (apn \in vacant_apns
                     \/ parsed[apn].property_address \in vacant_by_address)

C3_Witness ==
    /\ ppc = "merged"
    /\ \E apn \in DOMAIN parsed :
           /\ apn \in vacant_apns
           /\ parsed[apn].property_address \notin vacant_by_address
           /\ county_properties.val[apn].is_vacant
    /\ \E apn \in DOMAIN parsed :
           /\ apn \notin vacant_apns
           /\ parsed[apn].property_address \notin vacant_by_address
           /\ ~county_properties.val[apn].is_vacant

\* C15: parse_county_csv returns a parcel under an apn exactly when some row
\* of the file names the municipality in SitusCity, in any letter case, and
\* has that apn, non-empty, once trimmed; the rows of other municipalities
\* and the rows with a blank apn leave no entry and do not stop the loader.
C15_ParcelIffTargetRow ==
    (ppc = "owners") =>
        /\ DOMAIN county_properties.val =
               { Strip(countyRows[i].APN) :
                     i \in { k \in 1..Len(countyRows) :
                                /\ \E c \in {HAYWARD, Lower(HAYWARD),
                                              <<"H">> \o Tail(Lower(HAYWARD))} :
                                       Contains(countyRows[k].SitusCity, c)
                                /\ \E m \in 1..Len(countyRows[k].APN) :
                                       countyRows[k].APN[m] \notin Whitespace } }
        /\ \A apn \in DOMAIN county_properties.val :
               /\ county_properties.val[apn].apn = apn
               /\ apn # <<>>

\* a file with a row of the municipality and a row that is dropped: one parcel
C15_Witness ==
    /\ ppc = "owners"
    /\ Len(countyRows) = 2
    /\ Cardinality(DOMAIN county_properties.val) = 1
    /\ \E i \in 1..2 : ~Contains(Upper(countyRows[i].SitusCity), HAYWARD)
    /\ \E i \in 1..2 : countyRows[i].APN # Strip(countyRows[i].APN)

\* the steps of main, in the order of the calls
MainSteps == <<"parse", "owners", "vacant", "merge", "sql", "json">>

IsOutputStep(step) == step \in {"sql", "json"}

\* C18: when a source file cannot be opened the run ends there: the merge is
\* never entered and no output file is written.  The steps main completes
\* are always the first steps of parse, owners, vacant, merge, sql, json, so
\* an output file is written only after the three loads and the merge.
C18_NoOutputWithoutSources ==
    (ppc # "idle") =>
        /\ (pipeError = "FileNotFoundError") =>
               /\ ppc = "aborted"
               /\ outputs = <<>>
               /\ mergeIdx = 0
               /\ Len(stepsDone) < 3
        /\ Len(stepsDone) <= Len(MainSteps)
        /\ \A i \in 1..Len(stepsDone) : stepsDone[i] = MainSteps[i]
        /\ outputs = SelectSeq(stepsDone, IsOutputStep)
        /\ (ppc \in {"aborted", "crashed"}) => outputs = <<>>

\* the vacancy file cannot be opened after parcels and owners were loaded
C18_Witness ==
    /\ ppc = "aborted"
    /\ pipeError = "FileNotFoundError"
    /\ stepsDone = <<"parse", "owners">>
    /\ Len(county_properties.keys) > 0
    /\ DOMAIN owners_by_address # {}
    /\ outputs = <<>>

\* C19: an owner row that lacks property_address, owner_name or
\* owner_mailing_address is skipped and the load goes on: the owner load is
\* never ended by such a row.
C19_OwnerLoadNeverAborts ==
    ~(ppc = "aborted" /\ pipeError = "KeyError")

\* the rows of the file just read that parse_county_csv keeps
KeptRows ==
    { k \in 1..Len(countyRows) :
          /\ Contains(Upper(countyRows[k].SitusCity), HAYWARD)
          /\ Strip(countyRows[k].APN) # <<>> }

CoordsParse(row) ==
    /\ FloatField(row, "CENTROID_Y", FALSE).ok
    /\ FloatField(row, "CENTROID_X", FALSE).ok

ValuesParse(row) ==
    /\ FloatField(row, "Land", TRUE).ok
    /\ FloatField(row, "Imps", TRUE).ok

\* C20: a kept row whose coordinate or value field does not parse as a
\* number still has its parcel in the result: the parcel of the last row of
\* an apn has coordinates (0, 0) when a coordinate field of that row failed
\* and land, improvement and total value 0 when a value field failed, and
\* the parsed numbers otherwise.
C20_UnparsedFieldKeepsParcel ==
    (ppc = "owners") =>
        \A k \in KeptRows :
            LET row == countyRows[k]
                apn == Strip(row.APN)
            IN /\ apn \in DOMAIN county_properties.val
               /\ (\A j \in KeptRows : Strip(countyRows[j].APN) = apn => j <= k) =>
                      LET p == county_properties.val[apn] IN
                      /\ IF CoordsParse(row)
                         THEN /\ p.latitude =
                                     FloatField(row, "CENTROID_Y", FALSE).v
                              /\ p.longitude =
                                     FloatField(row, "CENTROID_X", FALSE).v
                         ELSE p.latitude = 0 /\ p.longitude = 0
                      /\ IF ValuesParse(row)
                         THEN /\ p.land_value = FloatField(row, "Land", TRUE).v
                              /\ p.improvement_value =
                                     FloatField(row, "Imps", TRUE).v
                         ELSE /\ p.land_value = 0
                              /\ p.improvement_value = 0
                              /\ p.total_value = 0

\* a file with a row whose CENTROID_Y is empty while CENTROID_X parses and
\* whose Land is not a number, and a row whose fields all parse: two parcels
C20_Witness ==
    /\ ppc = "owners"
    /\ Cardinality(DOMAIN county_properties.val) = 2
    /\ \E k \in KeptRows :
           /\ ~FloatField(countyRows[k], "CENTROID_Y", FALSE).ok
           /\ FloatField(countyRows[k], "CENTROID_X", FALSE).v # 0
           /\ ~FloatField(countyRows[k], "Land", TRUE).ok
           /\ county_properties.val[Strip(countyRows[k].APN)].longitude = 0
           /\ county_properties.val[Strip(countyRows[k].APN)].total_value = 0
    /\ \E k \in KeptRows :
           /\ CoordsParse(countyRows[k])
           /\ county_properties.val[Strip(countyRows[k].APN)].latitude # 0

\* C23: every parcel the parcel loader emitted has total_value >= 0.
C23_TotalNonNegative ==
    (ppc # "idle") =>
        \A apn \in DOMAIN county_properties.val :
            county_properties.val[apn].total_value >= 0

\* the lines of the vacancy file after the two header lines that contain
\* Hayward,CA and have more than five comma-separated fields
QualifyingLines ==
    { k \in 3..Len(vacantLines) :
          /\ \E i \in 1..(Len(vacantLines[k]) - Len(HaywardCA) + 1) :
                 SubSeq(vacantLines[k], i, i + Len(HaywardCA) - 1) = HaywardCA
          /\ Cardinality({ i \in 1..Len(vacantLines[k]) :
                               vacantLines[k][i] = "," }) >= 5 }

VacantField(k, n) == Strip(SplitOn(Strip(vacantLines[k]), ",")[n])

\* C24: load_jeff_vacant skips the first two lines and takes a line only when
\* it contains Hayward,CA and has more than five comma-separated fields; the
\* id set holds the non-empty first fields of those lines and the address
\* set the non-empty normalized fifth fields, each whatever the other field.
C24_VacantSetsIndependent ==
    (ppc = "merge" /\ mergeIdx = 1) =>
        /\ vacant_apns =
               { VacantField(k, 1) :
                     k \in { q \in QualifyingLines : VacantField(q, 1) # <<>> } }
        /\ vacant_by_address =
               { normalize_address(VacantField(k, 5)) :
                     k \in { q \in QualifyingLines :
                                normalize_address(VacantField(q, 5)) # <<>> } }

\* a file whose header lines qualify and whose third line has an address and
\* no apn: an empty id set and one address
C24_Witness ==
    /\ ppc = "merge" /\ mergeIdx = 1
    /\ Len(vacantLines) = 3
    /\ vacantLines[1] = VacantLineA
    /\ VacantField(3, 1) = <<>>
    /\ vacant_apns = {}
    /\ Cardinality(vacant_by_address) = 1

\* a text field that holds a value: neither None nor ''
Present(text) == text # NoneStr /\ text # <<>>

\* C16: the merge never replaces a value a parcel already has with an empty
\* one: a parcel whose owner_mailing_address or owner_name held a value
\* before the merge still holds one after it, whatever the matching owner
\* record holds; when that record's field is empty the parcel's field is the
\* one it had before.
C16_MergeKeepsPresentValues ==
    InMerge =>
        \A apn \in MergedApns :
            LET before == parsed[apn]
                after  == county_properties.val[apn]
                addr   == before.property_address
            IN (addr \in DOMAIN owners_by_address) =>
                   /\ (/\ Present(before.owner_mailing_address)
                       /\ ~Present(owners_by_address[addr].owner_mailing_address))
                          => after.owner_mailing_address =
                                 before.owner_mailing_address
                   /\ (/\ Present(before.owner_name)
                       /\ ~Present(owners_by_address[addr].owner_name))
                          => after.owner_name = before.owner_name

\* the rows of the owner file whose property_address normalizes to addr
OwnerRowsAt(addr) ==
    { i \in 1..Len(ownerRows) :
          normalize_address(ownerRows[i].property_address) = addr }

\* C14: after load_hayward_owners the keys of owners_by_address are the
\* non-empty normalized addresses of the file's rows, and the entry of a key
\* holds owner_name, owner_mailing_address and is_absentee of the last row
\* with that normalized address; a row whose normalized address is empty
\* adds no entry.
C14_OwnersLastWriteWins ==
    (ppc = "vacant") =>
        /\ DOMAIN owners_by_address =
               { normalize_address(ownerRows[i].property_address) :
                     i \in 1..Len(ownerRows) } \ { <<>> }
        /\ \A addr \in DOMAIN owners_by_address :
               LET last == CHOOSE i \in OwnerRowsAt(addr) :
                               \A j \in OwnerRowsAt(addr) : j <= i
                   row  == ownerRows[last]
               IN /\ owners_by_address[addr].owner_name = row.owner_name
                  /\ owners_by_address[addr].owner_mailing_address =
                         row.owner_mailing_address
                  /\ owners_by_address[addr].is_absentee =
                         (Lower(row.is_absentee) = TrueText)

\* two rows with one normalized address and different owners, the later one
\* kept; or a row with a blank address next to a kept one
C14_Witness ==
    /\ ppc = "vacant"
    /\ Len(ownerRows) = 2
    /\ normalize_address(ownerRows[1].property_address) =
           normalize_address(ownerRows[2].property_address)
    /\ ownerRows[1].property_address # ownerRows[2].property_address
    /\ ownerRows[1].owner_name # ownerRows[2].owner_name
    /\ Cardinality(DOMAIN owners_by_address) = 1
    /\ \A addr \in DOMAIN owners_by_address :
           owners_by_address[addr].owner_name = ownerRows[2].owner_name

\* the county rows a parcel of the loader's output may stem from: the rows of
\* the input set whose trimmed apn is the parcel's
RowsOfApn(apn) == { r \in CountyRowSet : Strip(r.APN) = apn }

\* C13: every parcel the parcel loader emitted and merge_data kept has
\* total_value = land_value + improvement_value, before, during and after the
\* merge; when Land or Imps did not parse, all three are 0.
C13_TotalIsSum ==
    (ppc \in {"owners", "vacant", "merge", "merged", "crashed"}) =>
        \A apn \in DOMAIN county_properties.val :
            LET p == county_properties.val[apn] IN
            /\ p.total_value = p.land_value + p.improvement_value
            /\ p.total_value = parsed[apn].total_value
            /\ \E r \in RowsOfApn(apn) :
                   IF /\ FloatField(r, "Land", TRUE).ok
                      /\ FloatField(r, "Imps", TRUE).ok
                   THEN /\ p.land_value = FloatField(r, "Land", TRUE).v
                        /\ p.improvement_value =
                               FloatField(r, "Imps", TRUE).v
                   ELSE /\ p.land_value = 0
                        /\ p.improvement_value = 0
                        /\ p.total_value = 0

\* a merged parcel whose Land field did not parse while Imps did, next to one
\* whose values parsed
C13_Witness ==
    /\ ppc = "merged"
    /\ \E apn \in DOMAIN county_properties.val :
           /\ county_properties.val[apn].total_value = 0
           /\ \A r \in RowsOfApn(apn) :
                  /\ ~FloatField(r, "Land", TRUE).ok
                  /\ FloatField(r, "Imps", TRUE).v > 0
    /\ \E apn \in DOMAIN county_properties.val :
           county_properties.val[apn].total_value = 500

(***************************************************************************)
(* The importers.  The input list is hayward_properties.json: records of   *)
(* the shape parse_county_csv builds and merge_data fills, one per apn.    *)
(* A record with index k is of kind (k + offset) % NumKinds.               *)
(***************************************************************************)
MaxProps == 12

MaxFullBatches == 2

MaxTail == 1

MaxReloadProps == 2

MaxRejects == 3

NumKinds == 3

OAKST == <<"9"," ","O","A","K"," ","S","T">>

OAKSTREET == <<"9"," ","O","a","k"," ","S","t","r","e","e","t">>

ZIP == <<"9","4","5","4","1">>

JANE == <<"J","A","N","E"," ","D","O","E"," ","T","R","U","S","T">>

POBOX == <<"P","O"," ","B","O","X"," ","1">>

RECURSIVE DecimalText(_)
DecimalText(n) ==
    IF n < 10 THEN <<Digits[n + 1]>>
    ELSE DecimalText(n \div 10) \o <<Digits[(n % 10) + 1]>>

\* kind 0: owner matched, values and coordinates parsed
\* kind 1: no owner matched, no mailing address, values and coordinates failed
\* kind 2: owner matched with an empty owner_name, longitude failed to 0
PropOfKind(k, kind) ==
    [apn                   |-> DecimalText(k),
     property_address      |-> OAKST,
     property_address_raw  |-> OAKSTREET,
     city                  |-> "Hayward",
     state                 |-> "CA",
     zip_code              |-> IF kind = 1 THEN <<>> ELSE ZIP,
     latitude              |-> IF kind = 1 THEN 0 ELSE 37,
     longitude             |-> IF kind = 0 THEN 0 - 122 ELSE 0,
     land_value            |-> IF kind = 1 THEN 0 ELSE 300,
     improvement_value     |-> IF kind = 1 THEN 0 ELSE 200,
     total_value           |-> IF kind = 1 THEN 0 ELSE 500,
     data_source           |-> "county",
     owner_name            |-> CASE kind = 0 -> JANE
                                 [] kind = 1 -> NoneStr
                                 [] OTHER    -> <<>>,
     owner_mailing_address |-> IF kind = 1 THEN <<>> ELSE POBOX,
     is_absentee           |-> kind = 0,
     is_vacant             |-> kind = 2]

PropsList(n, offset) ==
    [k \in 1..n |-> PropOfKind(k, (k + offset) % NumKinds)]

Scripts == {"import_to_supabase", "run_import", "run_import_service"}

\* batch_size: the operator's answer in import_to_supabase, fixed in the others
BatchSizes(sc) ==
    CASE sc = "import_to_supabase" ->
             {1, 2, RetryThreshold, RetryThreshold + 1}
      [] sc = "run_import"         -> {RunImportBatchSize}
      [] OTHER                     -> {ServiceBatchSize}

\* list lengths: every length up to MaxProps where batch_size is chosen, and
\* up to MaxFullBatches full batches plus a tail where it is fixed
InputSizes(sc, bs) ==
    IF sc = "import_to_supabase" THEN 0..MaxProps
    ELSE { b * bs + k : b \in 0..MaxFullBatches, k \in 0..MaxTail }

ImpFresh(sc, bs, props) ==
    /\ script = sc
    /\ batch_size = bs
    /\ properties = props
    /\ ipos = 0
    /\ rj = 0
    /\ inserted = 0
    /\ failed = 0
    /\ failed_apns = <<>>
    /\ store = <<>>
    /\ upsertLog = <<>>
    /\ rejectsLeft = MaxRejects
    /\ run = 1
    /\ storeRun1 = <<>>
    /\ ipc = "batch"

ImportInit ==
    /\ \E sc \in Scripts : \E bs \in BatchSizes(sc) :
       \E n \in InputSizes(sc, bs) :
           ImpFresh(sc, bs, PropsList(n, 0))
    /\ NormIdle
    /\ PipeIdle
    /\ UpdIdle
    /\ ApplyIdle
    /\ SqlIdle
    /\ RecheckIdle

ReloadInit ==
    /\ \E sc \in Scripts : \E bs \in BatchSizes(sc) :
       \E n \in 0..MaxReloadProps : \E offset \in 0..(NumKinds - 1) :
           ImpFresh(sc, bs, PropsList(n, offset))
    /\ NormIdle
    /\ PipeIdle
    /\ UpdIdle
    /\ ApplyIdle
    /\ SqlIdle
    /\ RecheckIdle

total == Len(properties)

batch == BatchAt(properties, ipos, batch_size)

IsBatchImport == script = "import_to_supabase"

LogEntry(kind, apns, ok) == [kind |-> kind, apns |-> apns, ok |-> ok]

\* the records of a list, each built by batch_record
BatchData(props) == [k \in 1..Len(props) |-> batch_record(props[k])]

RunData(props) == [k \in 1..Len(props) |-> run_record(props[k])]

\* import_to_supabase: the store accepts the batch upsert
BatchAccepted ==
    /\ IsBatchImport /\ ipc = "batch" /\ ipos < total
    /\ store' = Upsert(store, BatchData(batch))
    /\ inserted' = inserted + Len(batch)
    /\ upsertLog' = Append(upsertLog, LogEntry("batch", ApnsOf(batch), TRUE))
    /\ ipos' = next_batch_start(ipos, batch_size)
    /\ UNCHANGED <<script, properties, batch_size, rj, failed, failed_apns,
                   rejectsLeft, run, storeRun1, ipc>>
    /\ UNCHANGED <<normVars, pipeVars, updVars, applyVars, sqlVars, recheckVars>>

\* import_to_supabase: the store rejects the batch upsert, after it applied
\* the first records of it (the store is not assumed to be atomic)
BatchRejected ==
    /\ IsBatchImport /\ ipc = "batch" /\ ipos < total
    /\ rejectsLeft > 0
    /\ \E applied \in PartlyApplied(batch) :
           store' = Upsert(store, BatchData(SubSeq(batch, 1, applied)))
    /\ rejectsLeft' = rejectsLeft - 1
    /\ failed' = failed + Len(batch)
    /\ upsertLog' = Append(upsertLog, LogEntry("batch", ApnsOf(batch), FALSE))
    /\ ipc' = after_rejected_batch(batch_size)
    /\ rj' = IF ipc' = "retry" THEN 1 ELSE rj
    /\ ipos' = IF ipc' = "retry" THEN ipos
               ELSE next_batch_start(ipos, batch_size)
    /\ UNCHANGED <<script, properties, batch_size, inserted, failed_apns,
                   run, storeRun1>>
    /\ UNCHANGED <<normVars, pipeVars, updVars, applyVars, sqlVars, recheckVars>>

\* the per-record retry moves to the next record, or on to the next batch
RetryAdvance ==
    /\ rj' = rj + 1
    /\ ipc' = IF rj + 1 > Len(batch) THEN "batch" ELSE "retry"
    /\ ipos' = IF rj + 1 > Len(batch) THEN next_batch_start(ipos, batch_size)
               ELSE ipos

\* import_to_supabase: the store accepts the upsert of one record of the retry
RetryAccepted ==
    /\ IsBatchImport /\ ipc = "retry"
    /\ store' = Upsert(store, <<retry_record(batch[rj])>>)
    /\ inserted' = inserted + 1
    /\ failed' = failed_after_retry(failed)
    /\ upsertLog' = Append(upsertLog, LogEntry("single", <<batch[rj].apn>>, TRUE))
    /\ RetryAdvance
    /\ UNCHANGED <<script, properties, batch_size, failed_apns, rejectsLeft,
                   run, storeRun1>>
    /\ UNCHANGED <<normVars, pipeVars, updVars, applyVars, sqlVars, recheckVars>>

\* import_to_supabase: the store rejects the upsert of one record of the retry
RetryRejected ==
    /\ IsBatchImport /\ ipc = "retry"
    /\ rejectsLeft > 0
    /\ rejectsLeft' = rejectsLeft - 1
    /\ upsertLog' = Append(upsertLog, LogEntry("single", <<batch[rj].apn>>, FALSE))
    /\ RetryAdvance
    /\ UNCHANGED <<script, properties, batch_size, inserted, failed,
                   failed_apns, store, run, storeRun1>>
    /\ UNCHANGED <<normVars, pipeVars, updVars, applyVars, sqlVars, recheckVars>>

\* run_import, run_import_service: the store accepts the batch upsert
RunBatchAccepted ==
    /\ ~IsBatchImport /\ ipc = "batch" /\ ipos < total
    /\ store' = Upsert(store, RunData(batch))
    /\ inserted' = inserted + Len(batch)
    /\ upsertLog' = Append(upsertLog, LogEntry("batch", ApnsOf(batch), TRUE))
    /\ ipos' = next_batch_start(ipos, batch_size)
    /\ UNCHANGED <<script, properties, batch_size, rj, failed, failed_apns,
                   rejectsLeft, run, storeRun1, ipc>>
    /\ UNCHANGED <<normVars, pipeVars, updVars, applyVars, sqlVars, recheckVars>>

\* run_import, run_import_service: the store rejects the batch upsert; the
\* apns of the batch are appended to failed_apns
RunBatchRejected ==
    /\ ~IsBatchImport /\ ipc = "batch" /\ ipos < total
    /\ rejectsLeft > 0
    /\ \E applied \in PartlyApplied(batch) :
           store' = Upsert(store, RunData(SubSeq(batch, 1, applied)))
    /\ rejectsLeft' = rejectsLeft - 1
    /\ failed_apns' = failed_apns \o failed_apns_of(batch)
    /\ upsertLog' = Append(upsertLog, LogEntry("batch", ApnsOf(batch), FALSE))
    /\ ipos' = next_batch_start(ipos, batch_size)
    /\ UNCHANGED <<script, properties, batch_size, rj, inserted, failed,
                   run, storeRun1, ipc>>
    /\ UNCHANGED <<normVars, pipeVars, updVars, applyVars, sqlVars, recheckVars>>

\* the loop is over and the summary is printed: the success rate divides by
\* total in import_to_supabase and run_import_service (always) and in
\* run_import (only when failed_apns is not empty)
ImportFinish ==
    /\ ipc = "batch" /\ ipos >= total
    /\ ipc' = IF total = 0 /\ script # "run_import" THEN "crashed" ELSE "done"
    /\ UNCHANGED <<script, properties, batch_size, ipos, rj, inserted, failed,
                   failed_apns, store, upsertLog, rejectsLeft, run, storeRun1>>
    /\ UNCHANGED <<normVars, pipeVars, updVars, applyVars, sqlVars, recheckVars>>

\* the operator runs the same script again on the same input list
Rerun ==
    /\ ipc = "done" /\ run = 1
    /\ run' = 2
    /\ storeRun1' = store
    /\ ipos' = 0
    /\ rj' = 0
    /\ inserted' = 0
    /\ failed' = 0
    /\ failed_apns' = <<>>
    /\ upsertLog' = <<>>
    /\ rejectsLeft' = MaxRejects
    /\ ipc' = "batch"
    /\ UNCHANGED <<script, properties, batch_size, store>>
    /\ UNCHANGED <<normVars, pipeVars, updVars, applyVars, sqlVars, recheckVars>>

ImportNext ==
    \/ BatchAccepted \/ BatchRejected \/ RetryAccepted \/ RetryRejected
    \/ RunBatchAccepted \/ RunBatchRejected \/ ImportFinish

ReloadNext == ImportNext \/ Rerun

SpecImport == ImportInit /\ [][ImportNext]_vars

SpecReload == ReloadInit /\ [][ReloadNext]_vars

\* C5: loading the same record set twice through the batch upsert leaves the
\* table as the first load left it: once the first run has left a row for
\* every record of the set, the second run changes no row and adds none.
C5_ReloadChangesNothing ==
    (/\ run = 2
     /\ ipc = "done"
     /\ \A k \in 1..Len(properties) : properties[k].apn \in DOMAIN storeRun1)
        => store = storeRun1

IsBatchEntry(e) == e.kind = "batch"

\* the batch upserts sent so far, in the order they were sent
BatchLog == SelectSeq(upsertLog, IsBatchEntry)

\* the entries after upsertLog[k] are one upsert per record of that batch, in
\* batch order
RetriedSingly(k) ==
    LET e == upsertLog[k] IN
    /\ k + Len(e.apns) <= Len(upsertLog)
    /\ \A m \in 1..Len(e.apns) :
           /\ upsertLog[k + m].kind = "single"
           /\ upsertLog[k + m].apns = <<e.apns[m]>>

\* the entry after upsertLog[k], if any, is the next batch
NotRetried(k) == k = Len(upsertLog) \/ upsertLog[k + 1].kind = "batch"

RejectedBatchAt(k) == upsertLog[k].kind = "batch" /\ ~upsertLog[k].ok

NumBatches == (total + batch_size - 1) \div batch_size

\* the apns of the b-th batch of the input list
ExpectedBatch(b) == ApnsOf(BatchAt(properties, (b - 1) * batch_size, batch_size))

\* C7: a rejected batch or a rejected single record never stops the import:
\* the batches sent are always the first batches of the input list, each
\* once and in list order; the loop stands at the batch after the ones sent
\* (or at a record of the batch being retried) and is never stuck there, and
\* when it has ended every batch of the list has been sent.  (That a step is
\* possible is evaluated for the lists of up to MaxProps records.)
C7_EveryBatchAttempted ==
    (ipc # "idle") =>
        /\ Len(BatchLog) <= NumBatches
        /\ \A b \in 1..Len(BatchLog) : BatchLog[b].apns = ExpectedBatch(b)
        /\ (ipc = "batch" => ipos = Len(BatchLog) * batch_size)
        /\ (ipc = "retry" =>
               /\ ipos = (Len(BatchLog) - 1) * batch_size
               /\ rj \in 1..Len(batch))
        /\ ((ipc \in {"batch", "retry"} /\ total <= MaxProps) =>
               ENABLED ImportNext)
        /\ (ipc \in {"done", "crashed"} => Len(BatchLog) = NumBatches)

C7_Witness ==
    /\ IsBatchImport /\ ipc = "done"
    /\ NumBatches >= 2
    /\ ~BatchLog[1].ok
    /\ BatchLog[NumBatches].ok
    /\ \E k \in 1..Len(upsertLog) :
           upsertLog[k].kind = "single" /\ ~upsertLog[k].ok

\* C26: in import_to_supabase, inserted + failed is the number of records
\* of the batches handled so far: at the head of the loop the records before
\* position i, inside the retry of a batch the records up to the end of that
\* batch, and len(properties) at the return of a non-empty list; neither
\* counter is ever negative.
C26_CountersAccount ==
    (IsBatchImport /\ ipc # "idle") =>
        /\ failed >= 0
        /\ inserted >= 0
        /\ (ipc = "batch" =>
               inserted + failed = IF ipos < total THEN ipos ELSE total)
        /\ (ipc = "retry" => inserted + failed = ipos + Len(batch))
        /\ (ipc = "done" =>
               /\ total > 0
               /\ inserted + failed = Len(properties))

\* an import that ended after a rejected batch whose retry imported some of
\* its records and not others
C26_Witness ==
    /\ IsBatchImport /\ ipc = "done"
    /\ batch_size > RetryThreshold
    /\ inserted > 0 /\ failed > 0
    /\ \E k \in 1..Len(upsertLog) :
           upsertLog[k].kind = "single" /\ upsertLog[k].ok
    /\ \E k \in 1..Len(upsertLog) :
           upsertLog[k].kind = "single" /\ ~upsertLog[k].ok

\* the apns of the records of the rejected batches among the first b batches,
\* in input order
RECURSIVE RejectedApnsUpTo(_)
RejectedApnsUpTo(b) ==
    IF b = 0 THEN <<>>
    ELSE IF BatchLog[b].ok THEN RejectedApnsUpTo(b - 1)
    ELSE RejectedApnsUpTo(b - 1) \o ExpectedBatch(b)

ExpectedFailedApns == RejectedApnsUpTo(NumBatches)

\* C8: when the import of run_import or run_import_service has ended,
\* failed_apns holds exactly the apns of the records of the rejected batches,
\* each once and in input order, and no apn of an accepted batch.
C8_FailedApnsExact ==
    (~IsBatchImport /\ ipc = "done") => failed_apns = ExpectedFailedApns

C8_Witness ==
    /\ script = "run_import" /\ ipc = "done"
    /\ NumBatches >= 3
    /\ ~BatchLog[1].ok /\ BatchLog[2].ok /\ ~BatchLog[3].ok
    /\ Len(failed_apns) > 2

\* C17: in batch_insert_properties the per-record retry re-sends for a parcel
\* the record the batch sent for it, field for field: whichever of the two
\* upserts wrote a row last, the row is the batch record of its parcel, so
\* the retry leaves a row the rejected batch had already written unchanged.
C17_RetrySendsBatchRecord ==
    IsBatchImport =>
        \A k \in 1..Len(properties) :
            (properties[k].apn \in DOMAIN store) =>
                store[properties[k].apn] = batch_record(properties[k])

(***************************************************************************)
(* Inputs of the update detector: one stored parcel (or none) and a county *)
(* snapshot read row by row                                                *)
(***************************************************************************)
MaxSnapshotRows == 2

StoredValue == 500 * ValueThreshold

BOB == <<"B","O","B"," ","L","E","E">>

OAKLAND == <<"O","a","k","l","a","n","d">>

HaywardCity == <<"H","a","y","w","a","r","d">>

\* a row of master_properties as the batch import wrote it, with the given
\* owner_name and total_value columns
StoredRow(owner, value) ==
    [batch_record(PropOfKind(1, 0)) EXCEPT !.owner_name = owner,
                                           !.total_value = value]

\* the table: empty, the parcel as imported, the parcel with an owner as a
\* snapshot spelled it, the parcel with no owner and no value
UpdStores ==
    { <<>> } \cup
    { (DecimalText(1) :> StoredRow(o, v)) :
          o \in {JANE, <<" ">> \o JANE}, v \in {Num(StoredValue)} } \cup
    { (DecimalText(1) :> StoredRow(NoneStr, NullNum)) }

SnapshotOwners ==
    { JANE, <<" ">> \o JANE \o <<" ">>, Lower(JANE), BOB, <<" ", " ">>, <<>> }

SnapshotValues ==
    { DecimalText(StoredValue + 500),
      DecimalText(StoredValue + ValueThreshold),
      DecimalText(StoredValue + 2000),
      DecimalText(StoredValue - 2000),
      <<"0">>, <<>>, <<"N","/","A">> }

SnapshotRow(city, apn, owner, value) ==
    [SitusCity |-> city, APN |-> apn, SitusAddress |-> OAKSTREET,
     OwnerName |-> owner, TotalValue |-> value]

\* a row of the stored parcel, unchanged in owner and value, of a snapshot
\* that has a vacancy column; check_for_updates reads no such column
VacantSnapshotRow ==
    [SitusCity |-> HaywardCity, APN |-> DecimalText(1),
     SitusAddress |-> OAKSTREET, OwnerName |-> JANE,
     TotalValue |-> DecimalText(StoredValue), Vacant |-> TrueText]

SnapshotRowSet ==
    { SnapshotRow(HaywardCity, DecimalText(1), o, v) :
          o \in SnapshotOwners, v \in SnapshotValues } \cup
    { SnapshotRow(HaywardCity, a, <<" ">> \o BOB, DecimalText(StoredValue)) :
          a \in {<<" ">> \o DecimalText(1), DecimalText(2), <<" ">>} } \cup
    { SnapshotRow(OAKLAND, DecimalText(1), BOB, DecimalText(StoredValue + 2000)) } \cup
    { VacantSnapshotRow }

UpdInit ==
    /\ store \in UpdStores
    /\ rowsRead = 0
    /\ lastRow = EmptyRow
    /\ updates = EmptyUpdates
    /\ prevUpdates = EmptyUpdates
    /\ upc = "loop"
    /\ NormIdle
    /\ PipeIdle
    /\ ImpLocalIdle
    /\ ApplyIdle
    /\ SqlIdle
    /\ RecheckIdle

\* the reader yields a row
ReadRow(row) ==
    /\ upc = "loop"
    /\ rowsRead < MaxSnapshotRows
    /\ row \in SnapshotRowSet
    /\ rowsRead' = rowsRead + 1
    /\ lastRow' = row
    /\ prevUpdates' = updates
    /\ upc' = upc
    /\ UNCHANGED <<normVars, pipeVars, impVars, applyVars, sqlVars, recheckVars>>

\* continue: not a Hayward row, or no apn
SkipRow ==
    \E row \in SnapshotRowSet :
        /\ ~InTarget(row)
        /\ ReadRow(row)
        /\ updates' = updates

\* existing.data is empty
NewProperty ==
    \E row \in SnapshotRowSet :
        /\ InTarget(row)
        /\ Strip(row.APN) \notin DOMAIN store
        /\ ReadRow(row)
        /\ updates' = [updates EXCEPT !.new_properties =
                                          Append(@, new_property_entry(row))]

\* prop = existing.data[0]
CompareExisting ==
    \E row \in SnapshotRowSet :
        /\ InTarget(row)
        /\ Strip(row.APN) \in DOMAIN store
        /\ ReadRow(row)
        /\ updates' = compare_existing(updates, row, store[Strip(row.APN)])

\* the reader is exhausted: return updates
CheckReturn ==
    /\ upc = "loop"
    /\ upc' = "checked"
    /\ UNCHANGED <<rowsRead, lastRow, updates, prevUpdates>>
    /\ UNCHANGED <<normVars, pipeVars, impVars, applyVars, sqlVars, recheckVars>>

UpdateNext ==
    \/ SkipRow
    \/ NewProperty
    \/ CompareExisting
    \/ CheckReturn

SpecUpdate == UpdInit /\ [][UpdateNext]_vars

(***************************************************************************)
(* Properties of the update detector                                       *)
(***************************************************************************)
\* the last row read was compared with a stored record
ComparedLast ==
    /\ rowsRead > 0
    /\ InTarget(lastRow)
    /\ Strip(lastRow.APN) \in DOMAIN store

LastStored == store[Strip(lastRow.APN)]

LastNewValue == FloatField(lastRow, "TotalValue", TRUE)

\* what the last row added to a list of updates
AddedBy(key) ==
    SubSeq(updates[key], Len(prevUpdates[key]) + 1, Len(updates[key]))

\* the vacancy status a snapshot row carries, FALSE when it has no such column
RowVacant(row) == Lower(Get(row, "Vacant", <<>>)) = TrueText

\* C22: when the last row read is of a parcel with a stored record and its
\* vacancy status differs from the stored is_vacant, the vacancy-change list
\* of the result has an entry for that apn.
C22_VacancyChangesReported ==
    (ComparedLast /\ RowVacant(lastRow) # LastStored.is_vacant) =>
        \E k \in 1..Len(updates.vacant_changes) :
            updates.vacant_changes[k].apn = Strip(lastRow.APN)

\* C9 (as stated): for a parcel with a stored record whose stored and new
\* total values are both numbers, exactly one value_change, with change =
\* new - stored, is recorded when |new - stored| exceeds 1000, and none
\* when it is 1000 or less.
C9_ValueChangeIffOverThreshold ==
    (ComparedLast /\ LastNewValue.ok /\ LastStored.total_value # NullNum) =>
        LET diff == LastNewValue.v - LastStored.total_value[1] IN
        IF Abs(diff) > ValueThreshold
        THEN /\ Len(AddedBy("value_changes")) = 1
             /\ AddedBy("value_changes")[1].change = diff
        ELSE AddedBy("value_changes") = <<>>

\* C9 (amended): for a parcel with a stored record, exactly one value_change,
\* with change = new - stored, is recorded when the new total value is a
\* number greater than 0, the stored total value is a number and
\* |new - stored| exceeds 1000; none is recorded in every other case: a
\* difference of 1000 or less, a new value of 0 (or an empty field) or below,
\* a new value that is not a number, a stored value that is NULL.
C9_ValueChangeWhenPositive ==
    ComparedLast =>
        IF /\ LastNewValue.ok
           /\ LastNewValue.v > 0
           /\ LastStored.total_value # NullNum
           /\ Abs(LastNewValue.v - LastStored.total_value[1]) > 1000
        THEN /\ Len(AddedBy("value_changes")) = 1
             /\ AddedBy("value_changes")[1].apn = Strip(lastRow.APN)
             /\ AddedBy("value_changes")[1].change =
                    LastNewValue.v - LastStored.total_value[1]
        ELSE AddedBy("value_changes") = <<>>

\* a value that went down by more than the threshold was recorded with its
\* negative change
C9_Witness ==
    /\ ComparedLast
    /\ Len(AddedBy("value_changes")) = 1
    /\ AddedBy("value_changes")[1].change < 0 - 1000
    /\ Len(prevUpdates.value_changes) = 0
    /\ rowsRead = 2

\* C10: for a parcel with a stored record, exactly one title_transfer is
\* recorded when the new owner name, trimmed of surrounding whitespace, is
\* non-empty and differs from the stored owner name (compared exactly, case
\* included), and none otherwise; whether a value_change is recorded for the
\* same parcel plays no part.
C10_TitleTransferExact ==
    ComparedLast =>
        LET trimmed == Strip(lastRow.OwnerName)
            differs == \/ LastStored.owner_name = NoneStr
                       \/ Len(trimmed) # Len(LastStored.owner_name)
                       \/ \E i \in 1..Len(trimmed) :
                              trimmed[i] # LastStored.owner_name[i]
        IN IF Len(trimmed) > 0 /\ differs
           THEN /\ Len(AddedBy("title_transfers")) = 1
                /\ AddedBy("title_transfers")[1].apn = Strip(lastRow.APN)
                /\ AddedBy("title_transfers")[1].new_owner = trimmed
                /\ AddedBy("title_transfers")[1].old_owner =
                       LastStored.owner_name
           ELSE AddedBy("title_transfers") = <<>>

\* a row whose owner differs from the stored one in case only, recorded as a
\* title transfer together with a value change, after a row that was
\* recorded as a title transfer alone
C10_Witness ==
    /\ ComparedLast
    /\ rowsRead = 2
    /\ Len(prevUpdates.title_transfers) = 1
    /\ Len(prevUpdates.value_changes) = 0
    /\ Len(AddedBy("title_transfers")) = 1
    /\ Len(AddedBy("value_changes")) = 1
    /\ LastStored.owner_name # NoneStr
    /\ Upper(AddedBy("title_transfers")[1].new_owner) = LastStored.owner_name

\* C11: a snapshot row is recorded as a new_property exactly when its
\* SitusCity names the municipality, its apn is non-empty after trimming and
\* the table has no row with that apn; the entry carries the trimmed apn, and
\* such a row adds no title_transfer and no value_change.
C11_NewPropertyExact ==
    (upc # "idle" /\ rowsRead > 0) =>
        LET apn    == Strip(lastRow.APN)
            unseen == /\ Contains(Upper(lastRow.SitusCity), HAYWARD)
                      /\ Len(apn) > 0
                      /\ \A a \in DOMAIN store : a # apn
        IN IF unseen
           THEN /\ Len(AddedBy("new_properties")) = 1
                /\ AddedBy("new_properties")[1].apn = apn
                /\ AddedBy("title_transfers") = <<>>
                /\ AddedBy("value_changes") = <<>>
           ELSE AddedBy("new_properties") = <<>>

\* a second unseen row, with an apn that is not the stored parcel's, recorded
\* next to a stored parcel
C11_Witness ==
    /\ rowsRead = 2
    /\ store # <<>>
    /\ Len(prevUpdates.new_properties) = 1
    /\ Len(AddedBy("new_properties")) = 1
    /\ AddedBy("new_properties")[1].apn = DecimalText(2)
    /\ updates.title_transfers = <<>>

(***************************************************************************)
(* monthly_update main: check_for_updates has returned, apply_updates runs *)
(***************************************************************************)
MaxApplyRows == 3

\* snapshot rows: an owner change, an owner and value change, no change, an
\* unseen apn, an apn with a leading blank, a row of another city
ApplyRowSet ==
    { SnapshotRow(HaywardCity, DecimalText(1), BOB,
                  DecimalText(StoredValue + 500)),
      SnapshotRow(HaywardCity, DecimalText(1), Lower(JANE),
                  DecimalText(StoredValue + 2000)),
      SnapshotRow(HaywardCity, DecimalText(1), JANE,
                  DecimalText(StoredValue + 500)),
      SnapshotRow(HaywardCity, DecimalText(2), <<" ">> \o BOB,
                  DecimalText(StoredValue)),
      SnapshotRow(HaywardCity, <<" ">> \o DecimalText(1), <<" ">> \o BOB,
                  DecimalText(StoredValue)),
      SnapshotRow(OAKLAND, DecimalText(1), BOB,
                  DecimalText(StoredValue + 2000)) }

ApplyInit ==
    /\ store \in UpdStores
    /\ \E rows \in SeqsUpTo(ApplyRowSet, MaxApplyRows) :
           /\ rowsRead = Len(rows)
           /\ updates = check_for_updates(store, rows)
           /\ snapshot = rows
    /\ rechecked = EmptyUpdates
    /\ lastRow = EmptyRow
    /\ prevUpdates = updates
    /\ upc = "checked"
    /\ ApplyIdle
    /\ SqlIdle
    /\ NormIdle
    /\ PipeIdle
    /\ ImpLocalIdle

\* main: if any(updates.values()) apply_updates is called
MainApply ==
    /\ upc = "checked"
    /\ upc' = IF any_updates(updates) THEN loop_after("checked")
              ELSE "no_updates"
    /\ apos' = 1
    /\ UNCHANGED <<rowsRead, lastRow, updates, prevUpdates, alerts, opLog>>
    /\ UNCHANGED <<normVars, pipeVars, impVars, sqlVars, recheckVars>>

\* the list a loop of apply_updates runs over
ApplyList ==
    IF upc = "apply_new" THEN updates.new_properties
    ELSE updates.title_transfers

\* the owner update of a title transfer
TransferUpdate ==
    /\ upc = "apply_transfer" /\ apos <= Len(ApplyList)
    /\ store' = update_owner(store, ApplyList[apos].apn,
                              ApplyList[apos].new_owner)
    /\ opLog' = Append(opLog, StoreOp("master_properties", "update",
                                       ApplyList[apos].apn, TRUE))
    /\ upc' = "apply_alert"
    /\ UNCHANGED <<rowsRead, lastRow, updates, prevUpdates, apos, alerts>>
    /\ UNCHANGED <<normVars, pipeVars, impLocal, sqlVars, recheckVars>>

\* the alert of the same title transfer
TransferAlert ==
    /\ upc = "apply_alert"
    /\ alerts' = Append(alerts, alert_row(updates.title_transfers[apos]))
    /\ opLog' = Append(opLog, StoreOp("property_alerts", "insert",
                                       alert_row(updates.title_transfers[apos]).apn,
                                       TRUE))
    /\ apos' = apos + 1
    /\ upc' = "apply_transfer"
    /\ UNCHANGED <<rowsRead, lastRow, updates, prevUpdates>>
    /\ UNCHANGED <<normVars, pipeVars, impVars, sqlVars, recheckVars>>

\* the insert of a new property; apn is the conflict key of master_properties,
\* so the insert of an apn the table already has is rejected, and the
\* exception ends apply_updates
InsertNew ==
    /\ upc = "apply_new" /\ apos <= Len(ApplyList)
    /\ LET row == new_property_row(ApplyList[apos])
           ok  == row.apn \notin DOMAIN store
       IN /\ store' = IF ok THEN (row.apn :> row) @@ store ELSE store
          /\ opLog' = Append(opLog, StoreOp("master_properties", "insert",
                                             row.apn, ok))
          /\ upc' = IF ok THEN upc ELSE "crashed"
          /\ apos' = IF ok THEN apos + 1 ELSE apos
    /\ UNCHANGED <<rowsRead, lastRow, updates, prevUpdates, alerts>>
    /\ UNCHANGED <<normVars, pipeVars, impLocal, sqlVars, recheckVars>>

\* a loop of apply_updates is over
LoopDone ==
    /\ upc \in {"apply_transfer", "apply_new"} /\ apos > Len(ApplyList)
    /\ upc' = loop_after(upc)
    /\ apos' = 1
    /\ UNCHANGED <<rowsRead, lastRow, updates, prevUpdates, alerts, opLog>>
    /\ UNCHANGED <<normVars, pipeVars, impVars, sqlVars, recheckVars>>

\* the store or the network fails on the operation at hand: nothing is
\* caught, the exception ends the run
StoreFails ==
    /\ \/ upc \in {"apply_transfer", "apply_new"} /\ apos <= Len(ApplyList)
       \/ upc = "apply_alert"
    /\ opLog' = Append(opLog,
           StoreOp(IF upc = "apply_alert" THEN "property_alerts"
                   ELSE "master_properties",
                   IF upc = "apply_transfer" THEN "update" ELSE "insert",
                   IF upc = "apply_new" THEN updates.new_properties[apos].apn
                   ELSE updates.title_transfers[apos].apn,
                   FALSE))
    /\ upc' = "crashed"
    /\ UNCHANGED <<rowsRead, lastRow, updates, prevUpdates, apos, alerts>>
    /\ UNCHANGED <<normVars, pipeVars, impVars, sqlVars, recheckVars>>

\* the next run of the script: check_for_updates on the same snapshot,
\* against the table apply_updates left
Recheck ==
    /\ upc = "applied"
    /\ rechecked' = check_for_updates(store, snapshot)
    /\ upc' = "rechecked"
    /\ UNCHANGED <<rowsRead, lastRow, updates, prevUpdates, snapshot>>
    /\ UNCHANGED <<normVars, pipeVars, impVars, applyVars, sqlVars>>

ApplyNext ==
    \/ MainApply
    \/ TransferUpdate
    \/ TransferAlert
    \/ InsertNew
    \/ LoopDone
    \/ StoreFails
    \/ Recheck

SpecApply == ApplyInit /\ [][ApplyNext]_vars

\* the operations of a complete apply_updates for the updates at hand: per
\* title transfer, in list order, the update and the alert; then per new
\* property, in list order, the insert
ExpectedOps ==
    LET T == updates.title_transfers
        N == updates.new_properties
    IN [i \in 1..(2 * Len(T) + Len(N)) |->
           IF i <= 2 * Len(T)
           THEN IF i % 2 = 1
                THEN [table |-> "master_properties", op |-> "update",
                      apn |-> T[(i + 1) \div 2].apn]
                ELSE [table |-> "property_alerts", op |-> "insert",
                      apn |-> T[i \div 2].apn]
           ELSE [table |-> "master_properties", op |-> "insert",
                 apn |-> N[i - 2 * Len(T)].apn]]

\* C25: when apply_updates has applied the updates of a snapshot without a
\* store failure, check_for_updates on the same snapshot reports no
\* new_properties and no title_transfers.
C25_DetectionConverges ==
    (upc = "rechecked") =>
        /\ rechecked.new_properties = <<>>
        /\ rechecked.title_transfers = <<>>

\* C27: the new_properties of one check_for_updates run name each apn at
\* most once, and apply_updates issues at most one insert on
\* master_properties per apn.
C27_NewPropertyOncePerApn ==
    (upc # "idle") =>
        /\ \A i, j \in 1..Len(updates.new_properties) :
               i # j => updates.new_properties[i].apn #
                            updates.new_properties[j].apn
        /\ \A i, j \in 1..Len(opLog) :
               (/\ i # j
                /\ opLog[i].table = "master_properties"
                /\ opLog[j].table = "master_properties"
                /\ opLog[i].op = "insert"
                /\ opLog[j].op = "insert") => opLog[i].apn # opLog[j].apn

\* C12: apply_updates issues its store operations in one fixed order: for
\* each title transfer, in list order, the owner update on master_properties
\* and then the property_alerts insert for the same apn; every new-property
\* insert comes after the last title transfer, and the row it adds has
\* data_source 'county'.  An operation the store refuses is the last one
\* issued.
C12_TransfersThenInserts ==
    (upc \in {"apply_transfer", "apply_alert", "apply_new", "applied",
              "crashed"}) =>
        /\ Len(opLog) <= Len(ExpectedOps)
        /\ \A i \in 1..Len(opLog) :
               /\ opLog[i].table = ExpectedOps[i].table
               /\ opLog[i].op = ExpectedOps[i].op
               /\ opLog[i].apn = ExpectedOps[i].apn
               /\ (~opLog[i].ok => i = Len(opLog) /\ upc = "crashed")
               /\ (/\ i > 2 * Len(updates.title_transfers)
                   /\ opLog[i].ok) =>
                       /\ opLog[i].apn \in DOMAIN store
                       /\ store[opLog[i].apn].data_source = "county"
                       /\ store[opLog[i].apn].owner_name =
                              updates.new_properties[
                                  i - 2 * Len(updates.title_transfers)].owner
        /\ (upc = "applied" => Len(opLog) = Len(ExpectedOps))
        /\ Len(alerts) = Cardinality({ i \in 1..Len(opLog) :
                                         /\ opLog[i].table = "property_alerts"
                                         /\ opLog[i].ok })

\* two title transfers and a new property, all applied
C12_Witness ==
    /\ upc = "applied"
    /\ Len(updates.title_transfers) = 2
    /\ Len(updates.new_properties) = 1
    /\ Len(opLog) = 5
    /\ opLog[5].op = "insert" /\ opLog[5].table = "master_properties"
    /\ Len(alerts) = 2

(***************************************************************************)
(* generate_sql_inserts: the VALUES rows it writes and the statement       *)
(* INSERT ... ON CONFLICT (apn) DO UPDATE SET ... as the store executes it *)
(***************************************************************************)
Quote == <<"'">>

SqlNull == <<"N","U","L","L">>

\* escape(s): s.replace("'", "''") if s else ''
escape(s) == IF Present(s) THEN Replace(s, Quote, Quote \o Quote) ELSE <<>>

\* f"'{escape(x)}'"
sql_quoted(s) == Quote \o escape(s) \o Quote

\* f"'{escape(x)}'" if x else 'NULL'
sql_text_or_null(s) == IF Present(s) THEN sql_quoted(s) ELSE SqlNull

\* f"{x}" for a number
sql_number(v) == IF v < 0 THEN <<"-">> \o DecimalText(0 - v) ELSE DecimalText(v)

\* f"{x if x else 'NULL'}"
sql_number_or_null(v) == IF v # 0 THEN sql_number(v) ELSE SqlNull

\* str(x).lower() for a bool
sql_bool(b) == IF b THEN <<"t","r","u","e">> ELSE <<"f","a","l","s","e">>

\* one row of the VALUES list, column by column as text
sql_value_row(apn, prop) ==
    [apn                   |-> Quote \o apn \o Quote,
     property_address      |-> sql_quoted(prop.property_address_raw),
     city                  |-> sql_quoted(<<"H","a","y","w","a","r","d">>),
     state                 |-> sql_quoted(<<"C","A">>),
     owner_name            |-> sql_text_or_null(prop.owner_name),
     owner_mailing_address |-> sql_text_or_null(prop.owner_mailing_address),
     is_absentee           |-> sql_bool(prop.is_absentee),
     land_value            |-> sql_number(prop.land_value),
     improvement_value     |-> sql_number(prop.improvement_value),
     total_value           |-> sql_number(prop.total_value),
     latitude              |-> sql_number_or_null(prop.latitude),
     longitude             |-> sql_number_or_null(prop.longitude),
     is_vacant             |-> sql_bool(prop.is_vacant),
     data_source           |-> sql_quoted(<<"c","o","u","n","t","y">>)]

\* for apn, prop in properties.items(): values.append(value)
generate_sql_inserts(props) ==
    [k \in 1..Len(props.keys) |->
        sql_value_row(props.keys[k], props.val[props.keys[k]])]

\* the value of a text literal of the statement: NULL, or the text between
\* the quotes with every doubled quote read as one
sql_text_value(lit) ==
    IF lit = SqlNull THEN NoneStr
    ELSE Replace(SubSeq(lit, 2, Len(lit) - 1), Quote \o Quote, Quote)

\* the value of a numeric literal of the statement
sql_number_value(lit) ==
    IF lit = SqlNull THEN NullNum ELSE Num(PyFloat(lit).v)

sql_bool_value(lit) == lit = sql_bool(TRUE)

\* the row the statement proposes for insertion (EXCLUDED); the columns the
\* column list leaves out are NULL
excluded_row(value) ==
    [apn                   |-> sql_text_value(value.apn),
     property_address      |-> sql_text_value(value.property_address),
     city                  |-> "Hayward",
     state                 |-> "CA",
     zip_code              |-> NoneStr,
     owner_name            |-> sql_text_value(value.owner_name),
     owner_mailing_address |-> sql_text_value(value.owner_mailing_address),
     is_absentee           |-> sql_bool_value(value.is_absentee),
     land_value            |-> sql_number_value(value.land_value),
     improvement_value     |-> sql_number_value(value.improvement_value),
     total_value           |-> sql_number_value(value.total_value),
     latitude              |-> sql_number_value(value.latitude),
     longitude             |-> sql_number_value(value.longitude),
     is_vacant             |-> sql_bool_value(value.is_vacant),
     data_source           |-> "county"]

\* COALESCE(a, b) on text
Coalesce(a, b) == IF a # NoneStr THEN a ELSE b

\* variant: the owner columns are overwritten like the others
on_conflict_update_overwrite(stored, excluded) ==
    [stored EXCEPT
        !.property_address      = excluded.property_address,
        !.owner_name            = excluded.owner_name,
        !.owner_mailing_address = excluded.owner_mailing_address,
        !.is_absentee           = excluded.is_absentee,
        !.land_value            = excluded.land_value,
        !.improvement_value     = excluded.improvement_value,
        !.total_value           = excluded.total_value,
        !.latitude              = excluded.latitude,
        !.longitude             = excluded.longitude,
        !.is_vacant             = excluded.is_vacant]

\* ON CONFLICT (apn) DO UPDATE SET ...
on_conflict_update(stored, excluded) ==
    [stored EXCEPT
        !.property_address      = excluded.property_address,
        !.owner_name            = Coalesce(excluded.owner_name,
                                           stored.owner_name),
        !.owner_mailing_address = Coalesce(excluded.owner_mailing_address,
                                           stored.owner_mailing_address),
        !.is_absentee           = excluded.is_absentee,
        !.land_value            = excluded.land_value,
        !.improvement_value     = excluded.improvement_value,
        !.total_value           = excluded.total_value,
        !.latitude              = excluded.latitude,
        !.longitude             = excluded.longitude,
        !.is_vacant             = excluded.is_vacant]

\* the statement executed for one row of its VALUES list
exec_value_row(table, value) ==
    LET excluded == excluded_row(value) IN
    IF excluded.apn \in DOMAIN table
    THEN [table EXCEPT ![excluded.apn] =
              on_conflict_update(table[excluded.apn], excluded)]
    ELSE (excluded.apn :> excluded) @@ table

(***************************************************************************)
(* Inputs of the statement: a dict of up to MaxSqlProps merged parcels,    *)
(* apns 1, 2, ... in insertion order, and a table that is empty or holds   *)
(* a row of apn 1                                                          *)
(***************************************************************************)
MaxSqlProps == 2

ONEIL == <<"O","'","N","E","I","L">>

POBOX7 == <<"P","O"," ","B","O","X"," ","7">>

SqlOwners == {NoneStr, <<>>, JANE, ONEIL}

SqlMailings == {<<>>, POBOX}

\* the merged parcels of apn k: PropOfKind(k, 0) has values 300 + 200 and
\* coordinates (37, 0); PropOfKind(k, 1) has values 0 and latitude 0
SqlPropsOf(k) ==
    { [PropOfKind(k, kind) EXCEPT !.owner_name = o,
                                  !.owner_mailing_address = m,
                                  !.longitude = IF kind = 0 THEN 0 - 122 ELSE 0] :
          kind \in {0, 1}, o \in SqlOwners, m \in SqlMailings }

\* the lists of n merged parcels with apns 1..n
RECURSIVE SqlLists(_)
SqlLists(n) ==
    IF n = 0 THEN { <<>> }
    ELSE { Append(l, p) : l \in SqlLists(n - 1), p \in SqlPropsOf(n) }

\* the dict {prop['apn']: prop} of a list
SqlDictOf(l) ==
    [keys |-> [k \in 1..Len(l) |-> l[k].apn],
     val  |-> [a \in { l[k].apn : k \in 1..Len(l) } |->
                  l[CHOOSE k \in 1..Len(l) : l[k].apn = a]]]

SqlDicts ==
    { SqlDictOf(l) : l \in UNION { SqlLists(n) : n \in 1..MaxSqlProps } }

SqlStores ==
    { <<>>,
      (DecimalText(1) :> [StoredRow(BOB, Num(StoredValue))
                              EXCEPT !.owner_mailing_address = POBOX7]),
      (DecimalText(1) :> [StoredRow(NoneStr, NullNum)
                              EXCEPT !.owner_mailing_address = NoneStr]) }

SqlInit ==
    /\ sqlProps \in SqlDicts
    /\ store \in SqlStores
    /\ sqlBefore = store
    /\ sqlValues = <<>>
    /\ sqlPos = 0
    /\ spc = "start"
    /\ RecheckIdle
    /\ NormIdle
    /\ PipeIdle
    /\ ImpLocalIdle
    /\ UpdIdle
    /\ ApplyIdle

\* generate_sql_inserts writes the statement
WriteStatement ==
    /\ spc = "start"
    /\ sqlValues' = generate_sql_inserts(sqlProps)
    /\ sqlPos' = 1
    /\ spc' = "written"
    /\ UNCHANGED <<sqlProps, sqlBefore, store>>
    /\ UNCHANGED <<normVars, pipeVars, impLocal, updVars, applyVars, recheckVars>>

\* the store executes the statement for the next row of its VALUES list
ExecValueRow ==
    /\ spc = "written" /\ sqlPos <= Len(sqlValues)
    /\ store' = exec_value_row(store, sqlValues[sqlPos])
    /\ sqlPos' = sqlPos + 1
    /\ UNCHANGED <<sqlProps, sqlValues, sqlBefore, spc>>
    /\ UNCHANGED <<normVars, pipeVars, impLocal, updVars, applyVars, recheckVars>>

\* the statement is over
ExecDone ==
    /\ spc = "written" /\ sqlPos > Len(sqlValues)
    /\ spc' = "executed"
    /\ UNCHANGED <<sqlProps, sqlValues, sqlPos, sqlBefore, store>>
    /\ UNCHANGED <<normVars, pipeVars, impLocal, updVars, applyVars, recheckVars>>

SqlNext == WriteStatement \/ ExecValueRow \/ ExecDone

SpecSql == SqlInit /\ [][SqlNext]_vars

\* C21: for every row of the statement the store has executed whose apn the
\* table held before, owner_name and owner_mailing_address are the incoming
\* value when the parcel has one and the stored value when the incoming one
\* is empty or None, which the statement writes as NULL; land_value,
\* improvement_value and total_value are the incoming values in every case.
C21_ConflictUpdate ==
    (spc \in {"written", "executed"}) =>
        \A k \in 1..(sqlPos - 1) :
            LET apn == sqlProps.keys[k]
                p   == sqlProps.val[apn]
            IN /\ (sqlValues[k].owner_name = SqlNull) <=> ~Present(p.owner_name)
               /\ (sqlValues[k].owner_mailing_address = SqlNull)
                      <=> ~Present(p.owner_mailing_address)
               /\ (apn \in DOMAIN sqlBefore) =>
                      /\ store[apn].owner_name =
                             IF Present(p.owner_name) THEN p.owner_name
                             ELSE sqlBefore[apn].owner_name
                      /\ store[apn].owner_mailing_address =
                             IF Present(p.owner_mailing_address)
                             THEN p.owner_mailing_address
                             ELSE sqlBefore[apn].owner_mailing_address
                      /\ store[apn].land_value = Num(p.land_value)
                      /\ store[apn].improvement_value = Num(p.improvement_value)
                      /\ store[apn].total_value = Num(p.total_value)

\* the stored row of apn 1 has an owner and a mailing address; the incoming
\* parcel has an empty owner_name, another mailing address and other values
C21_Witness ==
    /\ spc = "executed"
    /\ DecimalText(1) \in DOMAIN sqlBefore
    /\ LET old == sqlBefore[DecimalText(1)]
           p   == sqlProps.val[DecimalText(1)]
           new == store[DecimalText(1)]
       IN /\ old.owner_name = BOB
          /\ p.owner_name = <<>>
          /\ new.owner_name = BOB
          /\ p.owner_mailing_address = POBOX
          /\ new.owner_mailing_address = POBOX
          /\ old.total_value # new.total_value
          /\ new.total_value = Num(500)

====
